---------------------------- MODULE Spec2Model ----------------------------
(***************************************************************************)
(* A model of the dump-to-filesystem builder (structure_builder/ and       *)
(* tools/): path sanitising, the under-base check, heading/fence           *)
(* extraction, and the build operations codefill_run, build_from_text,     *)
(* audit_and_fill and maybe_run_codefill_once.                             *)
(*                                                                         *)
(* Text is modelled character by character: a Python str is a sequence of  *)
(* one-character strings, so that strip, split, replace and the regular    *)
(* expressions are computed as the code computes them.                     *)
(***************************************************************************)
EXTENDS Naturals, Sequences, FiniteSets, TLC

VARIABLES
    san,    \* one call of sanitize_relpath: its argument, position and result
    eu,     \* one call of ensure_under: the filesystem, its arguments and result
    hd,     \* one call of _extract_from_headings: the dump, the path, the result
    disk,   \* the files of the filesystem: absolute path -> bytes written
    fill,   \* the runs of maybe_run_codefill_once: environment, last return value
    build,  \* one call of build_from_text: its arguments, reports and stage log
    tree,   \* one call of ProjectParser._discover_paths_from_tree: the dump, the result
    chat,   \* one call of LLMClient.chat: its attempt, the requests sent, its outcome
    gate,   \* the threads in llm_call_with_retry: the lock, the clock, the timestamp
    cf,     \* one call of codefill_run: its arguments and what it returned or raised
    aud,    \* the runs of audit_and_fill on one root directory: the last run's report
    pure    \* one call of a helper function: its name, its arguments, its result

vars == <<san, eu, hd, disk, fill, build, tree, chat, gate, cf, aud, pure>>

(***************************************************************************)
(* Python values                                                           *)
(***************************************************************************)
\* Optional[str]: None, or a str
None == [some |-> FALSE, v |-> <<>>]

Some(s) == [some |-> TRUE, v |-> s]

\* the backtick character (U+0060), which cannot be written in a TLA+ string
BT == "BACKTICK"

\* the characters str.strip() removes
WS == {" ", "\t", "\n", "\r"}

RECURSIVE LStripSet(_, _)
\* str.lstrip(chars): drop the leading characters that are in the set
LStripSet(s, set) ==
    IF s # <<>> /\ Head(s) \in set THEN LStripSet(Tail(s), set) ELSE s

RECURSIVE RStripSet(_, _)
\* str.rstrip(chars)
RStripSet(s, set) ==
    IF s # <<>> /\ s[Len(s)] \in set
    THEN RStripSet(SubSeq(s, 1, Len(s) - 1), set) ELSE s

\* str.strip(chars)
StripSet(s, set) == RStripSet(LStripSet(s, set), set)

\* str.strip()
Strip(s) == StripSet(s, WS)

\* str.replace(a, b) for single characters
ReplaceChar(s, a, b) == [i \in 1..Len(s) |-> IF s[i] = a THEN b ELSE s[i]]

RECURSIVE Split(_, _)
\* str.split(sep) for a one-character separator: "a//b" -> a, "", b
Split(s, sep) ==
    IF \A i \in 1..Len(s) : s[i] # sep THEN <<s>>
    ELSE LET k == CHOOSE i \in 1..Len(s) :
                      s[i] = sep /\ \A j \in 1..(i - 1) : s[j] # sep
         IN  <<SubSeq(s, 1, k - 1)>> \o Split(SubSeq(s, k + 1, Len(s)), sep)

RECURSIVE Join(_, _)
\* sep.join(parts)
Join(parts, sep) ==
    IF parts = <<>> THEN <<>>
    ELSE IF Len(parts) = 1 THEN parts[1]
    ELSE parts[1] \o sep \o Join(Tail(parts), sep)

RECURSIVE SelectSeqOf(_, _)
\* [x for x in parts if x not in drop]
SelectSeqOf(parts, drop) ==
    IF parts = <<>> THEN <<>>
    ELSE IF Head(parts) \in drop THEN SelectSeqOf(Tail(parts), drop)
    ELSE <<Head(parts)>> \o SelectSeqOf(Tail(parts), drop)

\* "x" in s, for a substring x
Contains(s, x) ==
    \E i \in 1..(Len(s) + 1) :
        i + Len(x) - 1 <= Len(s) /\ SubSeq(s, i, i + Len(x) - 1) = x

(***************************************************************************)
(* structure_builder/sanitize.py                                           *)
(***************************************************************************)
Letters ==
    {"a", "b", "c", "d", "e", "f", "g", "h", "i", "j", "k", "l", "m", "n",
      "o", "p", "q", "r", "s", "t", "u", "v", "w", "x", "y", "z", "A", "B",
      "C", "D", "E", "F", "G", "H", "I", "J", "K", "L", "M", "N", "O", "P",
      "Q", "R", "S", "T", "U", "V", "W", "X", "Y", "Z"}

Digits ==
    {"0", "1", "2", "3", "4", "5", "6", "7", "8", "9"}

\* _SAFE_COMP_RE = ^[A-Za-z0-9._\-]+$ : the characters of the class
SafeChars == Letters \cup Digits \cup {".", "_", "-"}

\* _SAFE_COMP_RE.match(s); '$' also matches before one final newline
SafeCompMatch(s) ==
    LET t == IF s # <<>> /\ s[Len(s)] = "\n" THEN SubSeq(s, 1, Len(s) - 1) ELSE s
    IN  t # <<>> /\ \A i \in 1..Len(t) : t[i] \in SafeChars

\* a clean_component that passes every segment that is not blank
clean_component_Unchecked(name) ==
    IF Strip(name) = <<>> THEN None ELSE Some(Strip(name))

\* clean_component(name)
clean_component(name) ==
    IF name = <<>> THEN None
    ELSE LET s == StripSet(ReplaceChar(Strip(name), "\\", "/"), {"/"})
         IN  IF s = <<>> THEN None
             ELSE LET segs == Split(s, "/")
                      last == segs[Len(segs)]
                  IN  IF SafeCompMatch(last) THEN Some(last) ELSE None

\* re.sub(r"^\./+", "", s)
StripLeadingDotSlash(s) ==
    IF Len(s) >= 2 /\ s[1] = "." /\ s[2] = "/"
    THEN LStripSet(Tail(s), {"/"}) ELSE s

RECURSIVE CollapseSlashes(_)
\* re.sub(r"/+", "/", s)
CollapseSlashes(s) ==
    IF Len(s) < 2 THEN s
    ELSE IF s[1] = "/" /\ s[2] = "/" THEN CollapseSlashes(Tail(s))
    ELSE <<s[1]>> \o CollapseSlashes(Tail(s))

\* the segments sanitize_relpath drops: seg not in ("", ".", "..")
DroppedSegs == {<<>>, <<".">>, <<".", ".">>}

\* a sanitiser that keeps the '..' segments
KeptParts_KeepDotDot(s) == SelectSeqOf(Split(s, "/"), {<<>>, <<".">>})

\* parts = [seg for seg in s.split("/") if seg not in ("", ".", "..")]
KeptParts(s) == SelectSeqOf(Split(s, "/"), DroppedSegs)

\* the loop over parts: None as soon as one component does not clean
CleanAll(parts) ==
    IF \E i \in 1..Len(parts) : ~clean_component(parts[i]).some THEN None
    ELSE Some(Join([i \in 1..Len(parts) |-> clean_component(parts[i]).v], <<"/">>))

\* sanitize_relpath(p)
sanitize_relpath(p) ==
    IF p = <<>> THEN None
    ELSE LET s0 == Strip(ReplaceChar(p, "\\", "/"))
             s  == CollapseSlashes(StripLeadingDotSlash(s0))
             parts == KeptParts(s)
         IN  IF parts = <<>> THEN None ELSE CleanAll(parts)

(***************************************************************************)
(* The filesystem as pathlib sees it.  An absolute path is the sequence of *)
(* its segments; links maps the absolute path of a symbolic link to the    *)
(* absolute path it points to.                                             *)
(***************************************************************************)
\* Path(s).parts for a posix path string: empty and '.' segments are dropped,
\* '..' is kept
PathParts(s) == SelectSeqOf(Split(s, "/"), {<<>>, <<".">>})

\* Path(s).is_absolute()
IsAbsolute(s) == s # <<>> /\ s[1] = "/"

\* the parent directory; the parent of the root is the root
Parent(path) == IF path = <<>> THEN <<>> ELSE SubSeq(path, 1, Len(path) - 1)

RECURSIVE ResolveFrom(_, _, _)
\* Path.resolve(): walk the components from cur, '..' steps to the parent
\* of the resolved prefix, a symbolic link is replaced by its target
ResolveFrom(links, cur, comps) ==
    IF comps = <<>> THEN cur
    ELSE LET c == Head(comps)
             rest == Tail(comps)
         IN  IF c = <<".", ".">> THEN ResolveFrom(links, Parent(cur), rest)
             ELSE IF c \in {<<>>, <<".">>} THEN ResolveFrom(links, cur, rest)
             ELSE IF Append(cur, c) \in DOMAIN links
                  THEN ResolveFrom(links, <<>>, links[Append(cur, c)] \o rest)
                  ELSE ResolveFrom(links, Append(cur, c), rest)

Resolve(links, path) == ResolveFrom(links, <<>>, path)

\* base / Path(rel): an absolute rel replaces base
JoinPath(base, rel) == IF IsAbsolute(rel) THEN PathParts(rel) ELSE base \o PathParts(rel)

\* PurePath.is_relative_to: base is a prefix of path, segment by segment
IsRelativeTo(path, base) ==
    Len(base) <= Len(path) /\ SubSeq(path, 1, Len(base)) = base

\* the result of a call that raised
Raised == [ok |-> FALSE, path |-> <<>>]

\* ensure_under that joins without resolving the target
ensure_under_NoResolve(links, base, rel) ==
    LET base_p == Resolve(links, base)
        target == JoinPath(base_p, rel)
    IN  IF ~IsRelativeTo(target, base_p) THEN Raised
        ELSE [ok |-> TRUE, path |-> target]

\* ensure_under(base, rel): the resolved target, or ValueError
ensure_under(links, base, rel) ==
    LET base_p == Resolve(links, base)
        target == Resolve(links, JoinPath(base_p, rel))
    IN  IF ~IsRelativeTo(target, base_p) THEN Raised
        ELSE [ok |-> TRUE, path |-> target]

(***************************************************************************)
(* structure_builder/audit.py: heading and fence patterns.  The dump is    *)
(* the sequence of its lines (raw.split("\n")); the lines of the model     *)
(* hold no carriage return and none is a run of '#' alone, so a heading    *)
(* and its token are on one line.                                          *)
(***************************************************************************)
\* the number of leading '#' of a string
RECURSIVE LeadingHashes(_)
LeadingHashes(s) ==
    IF s # <<>> /\ Head(s) = "#" THEN 1 + LeadingHashes(Tail(s)) ELSE 0

\* [A-Za-z0-9._/\-] of HEADING_RE's bare token
HeadingTokenChars == Letters \cup Digits \cup {".", "_", "/", "-"}

\* HEADING_RE on one line: ^\s*#{2,6}\s*(?:`(?P<q>[^`]+)`|(?P<nq>[A-Za-z0-9._/\-]+))\s*$
\* gives m.group("q") or m.group("nq"), or None when the line is no heading
HeadingMatch(line) ==
    LET s1 == LStripSet(line, WS)
        h  == LeadingHashes(s1)
        s3 == Strip(SubSeq(s1, h + 1, Len(s1)))
        inner == SubSeq(s3, 2, Len(s3) - 1)
    IN  IF h < 2 \/ h > 6 \/ s3 = <<>> THEN None
        ELSE IF s3[1] = BT
             THEN IF Len(s3) >= 3 /\ s3[Len(s3)] = BT
                     /\ \A i \in 1..Len(inner) : inner[i] # BT
                  THEN Some(inner) ELSE None
             ELSE IF \A i \in 1..Len(s3) : s3[i] \in HeadingTokenChars
                  THEN Some(s3) ELSE None

\* WHITELIST_BARE_FILENAMES
WHITELIST_BARE_FILENAMES ==
    { <<"D", "o", "c", "k", "e", "r", "f", "i", "l", "e">>, <<"R", "E", "A", "D", "M", "E", ".", "m", "d">>, <<"R", "E", "A", "D", "M", "E">>, <<".", "e", "n", "v">>, <<".", "e", "n", "v", ".", "e", "x", "a", "m", "p", "l", "e">>,
      <<"d", "o", "c", "k", "e", "r", "-", "c", "o", "m", "p", "o", "s", "e", ".", "y", "m", "l">>, <<"r", "e", "q", "u", "i", "r", "e", "m", "e", "n", "t", "s", ".", "t", "x", "t">>, <<"p", "y", "p", "r", "o", "j", "e", "c", "t", ".", "t", "o", "m", "l">>,
      <<".", "g", "i", "t", "i", "g", "n", "o", "r", "e">> }

\* the characters a fence is made of
FenceChars == {BT, "~"}

\* the length of the run of character c at the start of s
RECURSIVE RunLen(_, _)
RunLen(s, c) == IF s # <<>> /\ Head(s) = c THEN 1 + RunLen(Tail(s), c) ELSE 0

\* the first place of a line where (?:```+|~~~+) matches: [at, ch, n], n = 0 if none
FenceRun(line) ==
    LET starts == {i \in 1..Len(line) :
                      line[i] \in FenceChars
                      /\ RunLen(SubSeq(line, i, Len(line)), line[i]) >= 3}
    IN  IF starts = {} THEN [at |-> 0, ch |-> BT, n |-> 0]
        ELSE LET i == CHOOSE i \in starts : \A j \in starts : i <= j
             IN  [at |-> i, ch |-> line[i], n |-> RunLen(SubSeq(line, i, Len(line)), line[i])]

\* the lines j at which a block opened on line i with a fence of k characters
\* ch can close: "\n" then (?P=fence), so line j begins with the fence, and
\* the body holds at least the "\n" between the two, so j >= i + 2
ClosersOf(lines, i, ch, k) ==
    {j \in (i + 2)..Len(lines) : RunLen(lines[j], ch) >= k}

\* the fence lengths, from the whole run down to 3, for which a closer exists
ClosableLens(lines, i, run) ==
    {k \in 3..run.n : ClosersOf(lines, i, run.ch, k) # {}}

\* a match whose body runs on over the closing fence line
FenceMatchAt_KeepCloser(lines, i) ==
    LET run == FenceRun(lines[i])
        lens == ClosableLens(lines, i, run)
    IN  IF run.n = 0 \/ lens = {} THEN [found |-> FALSE, body |-> <<>>]
        ELSE LET k == CHOOSE k \in lens : \A k2 \in lens : k2 <= k
                 cs == ClosersOf(lines, i, run.ch, k)
                 j == CHOOSE j \in cs : \A j2 \in cs : j <= j2
             IN  [found |-> TRUE, body |-> SubSeq(lines, i + 1, j)]

\* FENCE_RE matched with its opening fence on line i: [found, body]; the
\* longest fence that can be closed, then the nearest closer (.*? is lazy)
FenceMatchAt(lines, i) ==
    LET run == FenceRun(lines[i])
        lens == ClosableLens(lines, i, run)
    IN  IF run.n = 0 \/ lens = {} THEN [found |-> FALSE, body |-> <<>>]
        ELSE LET k == CHOOSE k \in lens : \A k2 \in lens : k2 <= k
                 cs == ClosersOf(lines, i, run.ch, k)
                 j == CHOOSE j \in cs : \A j2 \in cs : j <= j2
             IN  [found |-> TRUE, body |-> SubSeq(lines, i + 1, j - 1)]

\* FENCE_RE.search(raw, pos) from the start of line from: the first line on
\* which the pattern matches
FenceSearch(lines, from) ==
    LET First(hits) ==
            IF hits = {} THEN [found |-> FALSE, body |-> <<>>]
            ELSE FenceMatchAt(lines, CHOOSE i \in hits : \A j \in hits : i <= j)
    IN  First({i \in from..Len(lines) : FenceMatchAt(lines, i).found})

RECURSIVE ReplaceCRLF(_)
\* s.replace("\r\n", "\n")
ReplaceCRLF(s) ==
    IF Len(s) < 2 THEN s
    ELSE IF s[1] = "\r" /\ s[2] = "\n" THEN ReplaceCRLF(Tail(s))
    ELSE <<s[1]>> \o ReplaceCRLF(Tail(s))

\* a heading that passes sanitize_relpath and the bare-filename whitelist
HeadingNorm(line) ==
    LET Norm(m) == IF m.some THEN sanitize_relpath(m.v) ELSE None
        Listed(norm) ==
            IF ~norm.some THEN None
            ELSE IF (\A i \in 1..Len(norm.v) : norm.v[i] # "/")
                    /\ norm.v \notin WHITELIST_BARE_FILENAMES THEN None
            ELSE norm
    IN  Listed(Norm(HeadingMatch(line)))

\* the loop of _extract_from_headings from line i on: the first heading that
\* names rel or root/rel and has a fence after it decides
RECURSIVE ExtractFrom(_, _, _, _)
ExtractFrom(lines, root, rel, i) ==
    IF i > Len(lines) THEN None
    ELSE LET Taken(norm, fence) ==
                 IF norm.some /\ norm.v \in {rel, root \o <<"/">> \o rel} /\ fence.found
                 THEN Some(ReplaceCRLF(Join(fence.body, <<"\n">>)))
                 ELSE ExtractFrom(lines, root, rel, i + 1)
         IN  Taken(HeadingNorm(lines[i]), FenceSearch(lines, i + 1))

\* _extract_from_headings(raw, root, rel_path)
extract_from_headings(lines, root, rel) == ExtractFrom(lines, root, rel, 1)

(***************************************************************************)
(* Files.  A file is the text written to it; Path.read_text() opens the    *)
(* file in text mode, which gives every line end as "\n".  Directories are *)
(* not modelled: every mkdir(parents=True, exist_ok=True) succeeds.        *)
(***************************************************************************)
\* no symbolic link in the filesystem of a build
NoLinks == [p \in {} |-> <<>>]

RECURSIVE RemoveChar(_, _)
\* str.replace(c, "")
RemoveChar(s, c) ==
    IF s = <<>> THEN <<>>
    ELSE IF Head(s) = c THEN RemoveChar(Tail(s), c)
    ELSE <<Head(s)>> \o RemoveChar(Tail(s), c)

\* path.exists()
Exists(files, path) == path \in DOMAIN files

\* path.is_dir(), the directories being the ancestors of the files
IsDirectory(files, path) ==
    \E q \in DOMAIN files : Len(q) > Len(path) /\ SubSeq(q, 1, Len(path)) = path

\* dir.mkdir(parents=True, exist_ok=True) raises: dir or a directory above it
\* is an existing file (FileExistsError, NotADirectoryError)
MkdirRaises(files, dir) ==
    \E k \in 1..Len(dir) : SubSeq(dir, 1, k) \in DOMAIN files

\* path.read_text(): universal newlines, "\r\n" and "\r" are read as "\n"
ReadText(files, path) == ReplaceChar(ReplaceCRLF(files[path]), "\r", "\n")

\* path.write_text(text)
WriteText(files, path, text) ==
    [p \in DOMAIN files \cup {path} |-> IF p = path THEN text ELSE files[p]]

\* the file a path string names under a directory: dir / rel, as the
\* operating system follows it
FileAt(dir, rel) == Resolve(NoLinks, JoinPath(dir, rel))

(***************************************************************************)
(* structure_builder/llm_normalizer.py: the two Gateway passes.  A Gateway *)
(* answer is the parsed JSON object, or no valid object.                   *)
(***************************************************************************)
\* LLM_MAX_BATCH, the default batch size of the blob pass
LLM_MAX_BATCH == 6

\* str(f).strip().lstrip("./").lstrip("/")
ListedPath(f) == LStripSet(LStripSet(Strip(f), {".", "/"}), {"/"})

RECURSIVE Dedupe(_)
\* list(dict.fromkeys(xs)): the first occurrence of each element, in order
Dedupe(xs) ==
    IF xs = << >> THEN << >>
    ELSE LET init == Dedupe(SubSeq(xs, 1, Len(xs) - 1))
             x == xs[Len(xs)]
         IN  IF \E i \in 1..Len(init) : init[i] = x THEN init ELSE Append(init, x)

RECURSIVE ListedFiles(_)
\* [str(f).strip().lstrip("./").lstrip("/") for f in files if str(f).strip()]
ListedFiles(fs) ==
    IF fs = << >> THEN << >>
    ELSE IF Strip(Head(fs)) = <<>> THEN ListedFiles(Tail(fs))
    ELSE <<ListedPath(Head(fs))>> \o ListedFiles(Tail(fs))

\* llm_extract_file_list: RuntimeError on an answer that is no list object
llm_extract_file_list(obj) ==
    IF ~obj.valid THEN [raised |-> TRUE, root |-> <<>>, files |-> << >>]
    ELSE [raised |-> FALSE, root |-> Strip(obj.root),
          files |-> Dedupe(ListedFiles(obj.files))]

RECURSIVE Chunk(_, _)
\* _chunk(lst, n)
Chunk(lst, n) ==
    IF lst = << >> THEN << >>
    ELSE IF Len(lst) <= n THEN <<lst>>
    ELSE <<SubSeq(lst, 1, n)>> \o Chunk(SubSeq(lst, n + 1, Len(lst)), n)

RECURSIVE MergeItems(_, _)
\* all_results[path] = content for the items of one answer, in order
MergeItems(all, items) ==
    IF items = << >> THEN all
    ELSE LET path == ListedPath(Head(items).path)
             next == IF path = <<>> THEN all
                     ELSE [p \in DOMAIN all \cup {path} |->
                              IF p = path THEN Head(items).content ELSE all[p]]
         IN  MergeItems(next, Tail(items))

RECURSIVE BlobBatches(_, _, _)
\* the batch loop of llm_extract_file_blobs: one Gateway call per batch, the
\* first answer that is no blobs object raises RuntimeError
BlobBatches(all, answers, calls) ==
    IF answers = << >> THEN [raised |-> FALSE, all |-> all, calls |-> calls]
    ELSE IF ~Head(answers).valid THEN [raised |-> TRUE, all |-> all, calls |-> calls + 1]
    ELSE BlobBatches(MergeItems(all, Head(answers).items), Tail(answers), calls + 1)

\* llm_extract_file_blobs(dump, files): answers holds one answer per batch
llm_extract_file_blobs(files, answers) ==
    LET Blobs(r) ==
            [raised |-> r.raised, calls |-> r.calls,
             blobs |-> [i \in 1..Len(files) |->
                           [path |-> files[i],
                            content |-> IF files[i] \in DOMAIN r.all THEN r.all[files[i]]
                                        ELSE <<>>]]]
    IN  Blobs(BlobBatches([p \in {} |-> <<>>], answers, 0))

\* parse_dump_bundle with the hint before the inferred root
parse_dump_bundle_HintFirst(root_hint, listObj, answers) ==
    LET Bundle(l, b) ==
            IF l.raised THEN [raised |-> TRUE, calls |-> 1, root |-> <<>>, files |-> << >>]
            ELSE IF b.raised
            THEN [raised |-> TRUE, calls |-> 1 + b.calls, root |-> <<>>, files |-> << >>]
            ELSE [raised |-> FALSE, calls |-> 1 + b.calls,
                  root |-> IF root_hint # <<>> THEN root_hint
                           ELSE IF l.root # <<>> THEN l.root
                           ELSE <<"g", "e", "n", "e", "r", "a", "t", "e", "d", "-", "p", "r", "o", "j", "e", "c", "t">>,
                  files |-> b.blobs]
        Passes(l) == Bundle(l, llm_extract_file_blobs(l.files, answers))
    IN  Passes(llm_extract_file_list(listObj))

\* parse_dump_bundle(raw_dump, root_hint): the list pass, then the blob pass
parse_dump_bundle(root_hint, listObj, answers) ==
    LET Bundle(l, b) ==
            LET root == IF l.root = <<>> /\ root_hint # <<>> THEN root_hint ELSE l.root
            IN  IF l.raised THEN [raised |-> TRUE, calls |-> 1, root |-> <<>>, files |-> << >>]
                ELSE IF b.raised
                THEN [raised |-> TRUE, calls |-> 1 + b.calls, root |-> <<>>, files |-> << >>]
                ELSE [raised |-> FALSE, calls |-> 1 + b.calls,
                      root |-> IF root # <<>> THEN root
                               ELSE IF root_hint # <<>> THEN root_hint
                               ELSE <<"g", "e", "n", "e", "r", "a", "t", "e", "d", "-", "p", "r", "o", "j", "e", "c", "t">>,
                      files |-> b.blobs]
        Passes(l) == Bundle(l, llm_extract_file_blobs(l.files, answers))
    IN  Passes(llm_extract_file_list(listObj))

(***************************************************************************)
(* tools/codefill.py                                                       *)
(***************************************************************************)
\* the character U+0000
NUL == "NUL"

\* _safe_normalize(s)
safe_normalize(s) == RemoveChar(ReplaceChar(ReplaceCRLF(s), "\r", "\n"), NUL)

\* _should_write(existing, new, mode)
should_write(existing, new, mode) ==
    IF ~existing.some THEN TRUE
    ELSE IF mode = "skip" THEN FALSE
    ELSE safe_normalize(existing.v) # safe_normalize(new)

\* resolve_root_dir(force_base, force_root) with both given: (base / root).resolve()
resolve_root_dir(force_base, force_root) == FileAt(force_base, force_root)

\* the state of codefill_run's write loop
FillAcc(files) ==
    [raised |-> FALSE, files |-> files, created |-> {}, updated |-> {}, found |-> {},
     writes |-> {}]

\* one turn of "for it in bundle.get('files', [])": the file is written at
\* root_dir / rel, as the path string stands; the OSError of mkdir, of
\* read_text or of write_text is caught nowhere
FillOne(acc, root_dir, it, mode) ==
    LET rel == LStripSet(LStripSet(Strip(it.path), {".", "/"}), {"/"})
        body == safe_normalize(it.content)
        Put(file_path, existing, write) ==
            [raised |-> FALSE,
             files |-> IF write THEN WriteText(acc.files, file_path, body) ELSE acc.files,
             created |-> IF write /\ ~existing.some THEN acc.created \cup {rel} ELSE acc.created,
             updated |-> IF write /\ existing.some THEN acc.updated \cup {rel} ELSE acc.updated,
             found |-> acc.found \cup {rel},
             writes |-> IF write THEN acc.writes \cup {file_path} ELSE acc.writes]
        Decide(file_path, existing) ==
            Put(file_path, existing, should_write(existing, body, mode))
        At(file_path) ==
            Decide(file_path, IF Exists(acc.files, file_path)
                              THEN Some(ReadText(acc.files, file_path)) ELSE None)
        Try(file_path) ==
            IF MkdirRaises(acc.files, Parent(file_path)) \/ IsDirectory(acc.files, file_path)
            THEN [acc EXCEPT !.raised = TRUE]
            ELSE At(file_path)
    IN  IF rel = <<>> \/ body = <<>> THEN acc
        ELSE Try(FileAt(root_dir, rel))

RECURSIVE FillLoop(_, _, _, _)
FillLoop(acc, root_dir, items, mode) ==
    IF items = << >> \/ acc.raised THEN acc
    ELSE FillLoop(FillOne(acc, root_dir, Head(items), mode), root_dir, Tail(items), mode)

\* codefill_run(dump_file, root_dir, mode): the bundle's placeholders are
\* always empty, so the placeholder loop creates nothing; what the bundle,
\* resolve_root_dir's mkdir or the write loop raises leaves the function
codefill_run(files, root_dir, mode, listObj, answers) ==
    LET Adopts(suggested_root) ==
            suggested_root # <<>> /\ suggested_root # root_dir[Len(root_dir)]
        Root(suggested_root) ==
            IF Adopts(suggested_root)
            THEN resolve_root_dir(Parent(root_dir), suggested_root)
            ELSE root_dir
        Aborted(calls, fs, root, writes) ==
            [raised |-> TRUE, calls |-> calls, files |-> fs, root_dir |-> root,
             created |-> {}, updated |-> {}, from_dump |-> {}, writes |-> writes]
        Result(bundle, root, acc) ==
            IF acc.raised THEN Aborted(bundle.calls, acc.files, root, acc.writes)
            ELSE [raised |-> FALSE, calls |-> bundle.calls, files |-> acc.files,
                  root_dir |-> root, created |-> acc.created, updated |-> acc.updated,
                  from_dump |-> acc.found, writes |-> acc.writes]
        Fill(bundle, suggested_root, root) ==
            IF Adopts(suggested_root) /\ MkdirRaises(files, root)
            THEN Aborted(bundle.calls, files, root_dir, {})
            ELSE Result(bundle, root, FillLoop(FillAcc(files), root, bundle.files, mode))
        Run(bundle) ==
            IF bundle.raised THEN Aborted(bundle.calls, files, root_dir, {})
            ELSE Fill(bundle, Strip(bundle.root), Root(Strip(bundle.root)))
    IN  Run(parse_dump_bundle(root_dir[Len(root_dir)], listObj, answers))

(***************************************************************************)
(* tools/prestart_codefill.py                                              *)
(***************************************************************************)
MARKER_NAME == <<".", "c", "o", "d", "e", "f", "i", "l", "l", ".", "h", "a", "s", "h">>

\* hashlib.sha256(bytes).hexdigest(): a text without blanks, different for
\* the different dumps of the model
sha256_hexdigest(bytes) == <<"h", "-">> \o bytes

\* no dump file was found
NoDump == [found |-> FALSE, bytes |-> <<>>]

\* the marker read as if no marker file existed
read_marker_Missing(files, marker) == <<>>

\* marker.read_text().strip() if marker.exists() else ""
read_marker(files, marker) ==
    IF Exists(files, marker) THEN Strip(ReadText(files, marker)) ELSE <<>>

\* what a run that did not call codefill_run returns
Skipped(files, reason) ==
    [skipped |-> TRUE, reason |-> reason, raised |-> FALSE, calls |-> 0, files |-> files,
     root_dir |-> << >>, created |-> {}, updated |-> {}, from_dump |-> {}, writes |-> {},
     marked |-> FALSE]

\* maybe_run_codefill_once with the marker written before codefill_run is
\* called
maybe_run_codefill_once_MarkFirst(files, env, dump, listObj, answers, markerOk) ==
    LET new_hash == sha256_hexdigest(dump.bytes)
        Done(result) ==
            [skipped |-> FALSE, reason |-> "", raised |-> result.raised,
             calls |-> result.calls, files |-> result.files, root_dir |-> result.root_dir,
             created |-> result.created, updated |-> result.updated,
             from_dump |-> result.from_dump, writes |-> result.writes,
             marked |-> markerOk]
        Checked(root, marker, prev_hash) ==
            IF prev_hash # <<>> /\ new_hash # <<>> /\ prev_hash = new_hash
            THEN Skipped(files, "dump unchanged")
            ELSE Done(codefill_run(IF markerOk THEN WriteText(files, marker, new_hash)
                                   ELSE files,
                                   root, env.mode, listObj, answers))
        Marked(root, marker) == Checked(root, marker, read_marker(files, marker))
        Under(root) == Marked(root, Append(root, MARKER_NAME))
    IN  IF ~env.enable THEN Skipped(files, "CODEFILL_ENABLE=0")
        ELSE IF ~dump.found THEN Skipped(files, "dump file not found")
        ELSE Under(resolve_root_dir(env.base, env.root_name))

\* maybe_run_codefill_once(): env is the environment (CODEFILL_ENABLE,
\* CODEFILL_MODE, the base directory and root name), dump the dump file that
\* _resolve_dump finds, markerOk whether the marker's write_text succeeds (its
\* exception is swallowed)
maybe_run_codefill_once(files, env, dump, listObj, answers, markerOk) ==
    LET new_hash == sha256_hexdigest(dump.bytes)
        Done(marker, result) ==
            IF result.raised
            THEN [skipped |-> FALSE, reason |-> "", raised |-> TRUE, calls |-> result.calls,
                  files |-> result.files, root_dir |-> result.root_dir, created |-> {},
                  updated |-> {}, from_dump |-> {}, writes |-> result.writes,
                  marked |-> FALSE]
            ELSE [skipped |-> FALSE, reason |-> "", raised |-> FALSE, calls |-> result.calls,
                  files |-> IF markerOk THEN WriteText(result.files, marker, new_hash)
                            ELSE result.files,
                  root_dir |-> result.root_dir, created |-> result.created,
                  updated |-> result.updated, from_dump |-> result.from_dump,
                  writes |-> result.writes, marked |-> markerOk]
        Checked(root, marker, prev_hash) ==
            IF prev_hash # <<>> /\ new_hash # <<>> /\ prev_hash = new_hash
            THEN Skipped(files, "dump unchanged")
            ELSE Done(marker, codefill_run(files, root, env.mode, listObj, answers))
        Marked(root, marker) == Checked(root, marker, read_marker(files, marker))
        Under(root) == Marked(root, Append(root, MARKER_NAME))
    IN  IF ~env.enable THEN Skipped(files, "CODEFILL_ENABLE=0")
        ELSE IF ~dump.found THEN Skipped(files, "dump file not found")
        ELSE Under(resolve_root_dir(env.base, env.root_name))

(***************************************************************************)
(* sorted() on str: code point order, character by character               *)
(***************************************************************************)
\* the characters of the model's paths, in code point order
CodeOrder ==
    <<" ", "!", "-", ".", "/", "0", "1", "2", "3", "4", "5", "6", "7", "8", "9",
      "A", "B", "C", "D", "E", "F", "G", "H", "I", "J", "K", "L", "M", "N", "O",
      "P", "Q", "R", "S", "T", "U", "V", "W", "X", "Y", "Z", "_",
      "a", "b", "c", "d", "e", "f", "g", "h", "i", "j", "k", "l", "m", "n", "o",
      "p", "q", "r", "s", "t", "u", "v", "w", "x", "y", "z">>

\* ord(c)
Code(c) == CHOOSE i \in 1..Len(CodeOrder) : CodeOrder[i] = c

RECURSIVE StrLess(_, _)
\* a < b for two str
StrLess(a, b) ==
    IF b = <<>> THEN FALSE
    ELSE IF a = <<>> THEN TRUE
    ELSE IF Head(a) = Head(b) THEN StrLess(Tail(a), Tail(b))
    ELSE Code(Head(a)) < Code(Head(b))

RECURSIVE Sorted(_)
\* sorted(S) for a set of str
Sorted(S) ==
    IF S = {} THEN << >>
    ELSE LET least == CHOOSE x \in S : \A y \in S \ {x} : StrLess(x, y)
         IN  <<least>> \o Sorted(S \ {least})

\* the elements of a list, as a set
Elems(xs) == {xs[i] : i \in 1..Len(xs)}

(***************************************************************************)
(* structure_builder/groq_openai.py: the two single-file Gateway stages.   *)
(* gw is the Gateway of one build: whether a provider key is set, and what *)
(* _chat gives to the extraction and to the backfill request (an exception *)
(* after its retries, or the text of the completion).                      *)
(***************************************************************************)
\* llm_extract_single_file(raw_text, rel_path): "" without a key and on an
\* exception
llm_extract_single_file(gw) ==
    IF ~gw.keys \/ gw.ext.err THEN <<>> ELSE Strip(Strip(gw.ext.text))

\* llm_backfill_file(path, hint, context=...)
llm_backfill_file(path, gw) ==
    IF ~gw.keys THEN <<"#", " ", "F", "a", "l", "l", "b", "a", "c", "k", " ", "s", "t", "u", "b", " ", "f", "o", "r", " ">> \o path \o <<":", " ", "L", "L", "M", " ", "p", "r", "o", "v", "i", "d", "e", "r", " ", "k", "e", "y", " ", "n", "o", "t", " ", "s", "e", "t", ".">>
    ELSE IF gw.bf.err THEN <<"#", " ", "A", "u", "t", "o", "-", "g", "e", "n", "e", "r", "a", "t", "e", "d", " ", "s", "t", "u", "b", " ", "f", "o", "r", " ">> \o path \o <<" ", "a", "f", "t", "e", "r", " ", "L", "L", "M", " ", "e", "r", "r", "o", "r", ".", "\n">>
    ELSE Strip(Strip(gw.bf.text))

(***************************************************************************)
(* structure_builder/audit.py: audit_and_fill                              *)
(***************************************************************************)
\* "if s:" for a str that may be blank: s and s.strip()
NonBlank(s) == s # <<>> /\ Strip(s) # <<>>

\* a body counts as a stub only when it is blank
is_empty_or_stub_BlankOnly(body) == ~NonBlank(body)

\* _is_empty_or_stub(body)
is_empty_or_stub(body) ==
    \/ ~NonBlank(body)
    \/ Len(Strip(body)) < 5
    \/ Contains(Strip(body), <<"A", "u", "t", "o", "-", "b", "a", "c", "k", "f", "i", "l", "l", "e", "d", " ", "s", "t", "u", "b">>)

\* the state of audit_and_fill's loop: the files, the five report lists, and
\* for every path the stages that ran with what each of them gave
AuditAcc(files) ==
    [files |-> files, created |-> << >>, updated |-> << >>, unchanged |-> << >>,
     llm_filled |-> << >>, failed |-> << >>, log |-> [r \in {} |-> << >>]]

\* the log entry of one path
LogOf(acc, rel, stages, existing, fence, ext, bf) ==
    [r \in DOMAIN acc.log \cup {rel} |->
        IF r = rel THEN [stages |-> stages, existing |-> existing, fence |-> fence,
                         ext |-> ext, bf |-> bf]
        ELSE acc.log[r]]

\* one turn of "for rel in rel_list"
AuditOne(acc, lines, root_dir, root_name, rel, gw) ==
    LET Stages(target, there, existing, fence_content, llm_body, backfill) ==
            LET list == IF existing = <<>> THEN "created" ELSE "updated"
            IN  IF fence_content.some /\ NonBlank(fence_content.v)
                THEN LET a == [acc EXCEPT !.log = LogOf(acc, rel, <<"fence">>, existing,
                                                        fence_content, <<>>, <<>>)]
                     IN  IF ~there
                         THEN [a EXCEPT !.files = WriteText(acc.files, target.path,
                                                            fence_content.v),
                                        !.created = Append(@, rel)]
                         ELSE IF existing # fence_content.v
                         THEN [a EXCEPT !.files = WriteText(acc.files, target.path,
                                                            fence_content.v),
                                        !.updated = Append(@, rel)]
                         ELSE [a EXCEPT !.unchanged = Append(@, rel)]
                ELSE IF is_empty_or_stub(existing)
                THEN IF NonBlank(llm_body)
                     THEN [acc EXCEPT !.files = WriteText(acc.files, target.path, llm_body),
                                      ![list] = Append(@, rel),
                                      !.llm_filled = Append(@, rel),
                                      !.log = LogOf(acc, rel, <<"fence", "extract">>, existing,
                                                    fence_content, llm_body, <<>>)]
                     ELSE IF Strip(backfill) # <<>>
                     THEN [acc EXCEPT !.files = WriteText(acc.files, target.path, backfill),
                                      ![list] = Append(@, rel),
                                      !.llm_filled = Append(@, rel),
                                      !.log = LogOf(acc, rel, <<"fence", "extract", "backfill">>,
                                                    existing, fence_content, llm_body, backfill)]
                     ELSE [acc EXCEPT !.failed = Append(@, rel),
                                      !.log = LogOf(acc, rel, <<"fence", "extract", "backfill">>,
                                                    existing, fence_content, llm_body, backfill)]
                ELSE [acc EXCEPT !.unchanged = Append(@, rel),
                                 !.log = LogOf(acc, rel, <<"fence">>, existing, fence_content,
                                               <<>>, <<>>)]
        Read(target, there) ==
            Stages(target, there,
                   IF there THEN ReadText(acc.files, target.path) ELSE <<>>,
                   extract_from_headings(lines, root_name, rel),
                   llm_extract_single_file(gw), llm_backfill_file(rel, gw))
        At(target) ==
            IF ~target.ok THEN acc ELSE Read(target, Exists(acc.files, target.path))
    IN  At(ensure_under(NoLinks, root_dir, rel))

RECURSIVE AuditLoop(_, _, _, _, _, _)
AuditLoop(acc, lines, root_dir, root_name, rels, gw) ==
    IF rels = << >> THEN acc
    ELSE AuditLoop(AuditOne(acc, lines, root_dir, root_name, Head(rels), gw),
                   lines, root_dir, root_name, Tail(rels), gw)

\* audit_and_fill(raw_dump, root_dir, declared_files, root_name)
audit_and_fill(files, lines, root_dir, declared_files, root_name, gw) ==
    LET rel_list == Sorted({p \in Elems(declared_files) : sanitize_relpath(p).some})
    IN  AuditLoop(AuditAcc(files), lines, root_dir, root_name, rel_list, gw)

(***************************************************************************)
(* structure_builder/core.py: build_from_text.  It reads root, tree_files  *)
(* and files_out of the normaliser's result; the normalize_and_maybe_llm   *)
(* of llm_normalizer.py takes other keywords than the call passes and      *)
(* raises TypeError, so the result is either that exception or any value   *)
(* with the fields the loop reads.  use_black and git_init are off.        *)
(***************************************************************************)
\* _write_file(path, body, if_exists)
write_file(files, path, body, if_exists) ==
    IF Exists(files, path) /\ if_exists = "skip" THEN [files |-> files, wrote |-> FALSE]
    ELSE [files |-> WriteText(files, path, body), wrote |-> TRUE]

\* the state of the write loop: the files, BuildResult's two lists, the
\* targets _write_file wrote, and whether ensure_under raised
WriteAcc(files) ==
    [files |-> files, created |-> << >>, skipped |-> << >>, wrote |-> {}, raised |-> FALSE]

RECURSIVE WriteLoop(_, _, _, _, _)
\* "for rel in declared_files": a ValueError of ensure_under ends the build
WriteLoop(acc, root_dir, rels, files_out, if_exists) ==
    IF rels = << >> THEN acc
    ELSE LET rel == Head(rels)
             body == IF rel \in DOMAIN files_out THEN files_out[rel] ELSE <<>>
             Written(tgt, w) ==
                 WriteLoop([files |-> w.files,
                            created |-> IF w.wrote THEN Append(acc.created, tgt.path)
                                        ELSE acc.created,
                            skipped |-> IF w.wrote THEN acc.skipped
                                        ELSE Append(acc.skipped, tgt.path),
                            wrote |-> IF w.wrote THEN acc.wrote \cup {tgt.path}
                                      ELSE acc.wrote,
                            raised |-> FALSE],
                           root_dir, Tail(rels), files_out, if_exists)
             At(tgt) ==
                 IF ~tgt.ok THEN [acc EXCEPT !.raised = TRUE]
                 ELSE Written(tgt, write_file(acc.files, tgt.path, body, if_exists))
         IN  At(ensure_under(NoLinks, root_dir, rel))

\* the normaliser's call raised TypeError
NormTypeError == [typeError |-> TRUE, root |-> <<>>, tree_files |-> << >>,
                  files_out |-> [r \in {} |-> <<>>]]

\* a build that ended in an exception
BuildRaised(files, what, declared, w) ==
    [raised |-> what, files |-> files, root_dir |-> << >>, declared |-> declared,
     created |-> w.created, skipped |-> w.skipped, wrote |-> w.wrote,
     audited |-> FALSE, audit |-> AuditAcc(files)]

\* build_from_text(raw, dest_folder, options): lines is raw, dump the
\* normaliser's result, gw the Gateway of the audit
build_from_text(files, lines, dest_base, dump, if_exists, verify_with_llm, gw) ==
    LET root_name == IF dump.root # <<>> THEN dump.root ELSE <<"p", "r", "o", "j", "e", "c", "t">>
        declared_files == Sorted(Elems(dump.tree_files) \cup DOMAIN dump.files_out)
        Result(root_dir, w, audit) ==
            [raised |-> "none",
             files |-> IF verify_with_llm THEN audit.files ELSE w.files,
             root_dir |-> root_dir.path, declared |-> declared_files,
             created |-> w.created, skipped |-> w.skipped, wrote |-> w.wrote,
             audited |-> verify_with_llm,
             audit |-> IF verify_with_llm THEN audit ELSE AuditAcc(w.files)]
        Written(root_dir, w) ==
            IF w.raised THEN BuildRaised(w.files, "ValueError", declared_files, w)
            ELSE Result(root_dir, w,
                        audit_and_fill(w.files, lines, root_dir.path, declared_files,
                                       root_name, gw))
        Under(root_dir) ==
            IF ~root_dir.ok THEN BuildRaised(files, "ValueError", << >>, WriteAcc(files))
            ELSE Written(root_dir,
                         WriteLoop(WriteAcc(files), root_dir.path, declared_files,
                                   dump.files_out, if_exists))
    IN  IF dump.typeError THEN BuildRaised(files, "TypeError", << >>, WriteAcc(files))
        ELSE Under(ensure_under(NoLinks, dest_base, root_name))

(***************************************************************************)
(* tools/parsing_utils.py and tools/project_parser.py: the tree parser.    *)
(* The box-drawing characters are written by name.                         *)
(***************************************************************************)
\* U+2502, the vertical bar of a tree line
VBAR == "VBAR"

\* U+251C, the connector of an entry that has a later sibling
TEE == "TEE"

\* U+2514, the connector of the last entry of a directory
ELL == "ELL"

\* U+2500, the horizontal bar of a connector
HBAR == "HBAR"

\* the three characters U+00E2 U+201D U+20AC that project_parser.py looks
\* for in a heading line
TREE_MARK == <<"U+00E2", "U+201D", "U+20AC">>

\* TREE_LINE_RE.match(line): ^(?P<indent>[|\s]*)(?:[+`]--\s?)(?P<name>.*)$
\* with the box-drawing characters; start is match.start('name')
TreeLineMatch(line) ==
    LET Found(rest) ==
            LET sp == IF Len(rest) >= 4 /\ rest[4] \in WS THEN 1 ELSE 0
            IN  IF Len(rest) >= 3 /\ rest[1] \in {TEE, ELL}
                   /\ rest[2] = HBAR /\ rest[3] = HBAR
                THEN [matched |-> TRUE, start |-> Len(line) - Len(rest) + 3 + sp,
                      name |-> SubSeq(rest, 4 + sp, Len(rest))]
                ELSE [matched |-> FALSE, start |-> 0, name |-> <<>>]
    IN  Found(LStripSet(line, {VBAR} \cup WS))

\* WHITELIST_BARE
WHITELIST_BARE ==
    { <<"D", "o", "c", "k", "e", "r", "f", "i", "l", "e">>, <<"R", "E", "A", "D", "M", "E", ".", "m", "d">>, <<"R", "E", "A", "D", "M", "E">>, <<".", "e", "n", "v">>, <<".", "e", "n", "v", ".", "s", "a", "m", "p", "l", "e">>,
      <<".", "e", "n", "v", ".", "e", "x", "a", "m", "p", "l", "e">>, <<"d", "o", "c", "k", "e", "r", "-", "c", "o", "m", "p", "o", "s", "e", ".", "y", "m", "l">>, <<"r", "e", "q", "u", "i", "r", "e", "m", "e", "n", "t", "s", ".", "t", "x", "t">>,
      <<"p", "y", "p", "r", "o", "j", "e", "c", "t", ".", "t", "o", "m", "l">>, <<".", "g", "i", "t", "i", "g", "n", "o", "r", "e">>, <<"t", "s", "c", "o", "n", "f", "i", "g", ".", "b", "a", "s", "e", ".", "j", "s", "o", "n">> }

\* TEXTY_EXTS
TEXTY_EXTS ==
    { <<".", "p", "y">>, <<".", "m", "d">>, <<".", "t", "x", "t">>, <<".", "y", "m", "l">>, <<".", "y", "a", "m", "l">>, <<".", "j", "s", "o", "n">>, <<".", "t", "o", "m", "l">>,
      <<".", "i", "n", "i">>, <<".", "c", "f", "g">>, <<".", "c", "o", "n", "f">>, <<".", "h", "t", "m", "l">>, <<".", "h", "t", "m">>, <<".", "c", "s", "s">>, <<".", "s", "c", "s", "s">>,
      <<".", "s", "a", "s", "s">>, <<".", "j", "s">>, <<".", "t", "s">>, <<".", "t", "s", "x">>, <<".", "j", "s", "x">>, <<".", "s", "q", "l">>, <<".", "c", "s", "v">>,
      <<".", "x", "m", "l">>, <<".", "e", "n", "v">>, <<".", "s", "a", "m", "p", "l", "e">>, <<".", "p", "r", "i", "s", "m", "a">>, <<".", "s", "h">>, <<".", "b", "a", "s", "h">> }

\* the letters, in upper and in lower case
UpperCase == <<"A", "B", "C", "D", "E", "F", "G", "H", "I", "J", "K", "L", "M", "N", "O", "P", "Q", "R", "S", "T", "U", "V", "W", "X", "Y", "Z">>

LowerCase == <<"a", "b", "c", "d", "e", "f", "g", "h", "i", "j", "k", "l", "m", "n", "o", "p", "q", "r", "s", "t", "u", "v", "w", "x", "y", "z">>

\* str.lower()
Lower(s) ==
    [i \in 1..Len(s) |->
        IF \E k \in 1..Len(UpperCase) : UpperCase[k] = s[i]
        THEN LowerCase[CHOOSE k \in 1..Len(UpperCase) : UpperCase[k] = s[i]]
        ELSE s[i]]

\* os.path.splitext(base)[1] for a name without "/": from the last dot on,
\* unless only dots come before it
SplitExt(base) ==
    LET dots == {i \in 1..Len(base) : base[i] = "."}
        FromDot(last) ==
            IF \A j \in 1..(last - 1) : base[j] = "." THEN <<>>
            ELSE SubSeq(base, last, Len(base))
    IN  IF dots = {} THEN <<>>
        ELSE FromDot(CHOOSE i \in dots : \A j \in dots : j <= i)

\* _is_texty_name(name)
is_texty_name(name) ==
    LET Texty(base) ==
            IF base # <<>> /\ base[1] = "." /\ base \notin WHITELIST_BARE THEN FALSE
            ELSE IF base \in WHITELIST_BARE THEN TRUE
            ELSE Lower(SplitExt(base)) \in TEXTY_EXTS
        Last(parts) == Texty(parts[Len(parts)])
    IN  Last(Split(name, "/"))

RECURSIVE PopTo_Shallower(_, _)
\* a stack that keeps the directories of the line's own level
PopTo_Shallower(stack, level) ==
    IF stack # << >> /\ stack[Len(stack)].level > level
    THEN PopTo_Shallower(SubSeq(stack, 1, Len(stack) - 1), level)
    ELSE stack

RECURSIVE PopTo(_, _)
\* while path_stack and path_stack[-1]['level'] >= indent_level: path_stack.pop()
PopTo(stack, level) ==
    IF stack # << >> /\ stack[Len(stack)].level >= level
    THEN PopTo(SubSeq(stack, 1, Len(stack) - 1), level)
    ELSE stack

\* one tree line: a directory is pushed, a file is appended when its name is texty
TreeEntry(stack, files, level, name) ==
    LET Placed(kept) ==
            IF name # <<>> /\ name[Len(name)] = "/"
            THEN [stack |-> Append(kept, [level |-> level, name |-> RStripSet(name, {"/"})]),
                  files |-> files]
            ELSE LET full_path ==
                         Join([i \in 1..Len(kept) |-> kept[i].name] \o <<name>>, <<"/">>)
                 IN  [stack |-> kept,
                      files |-> IF is_texty_name(full_path) THEN Append(files, full_path)
                                ELSE files]
    IN  Placed(PopTo(stack, level))

RECURSIVE DiscoverFrom(_, _, _, _, _)
\* "for line in lines" of _discover_paths_from_tree
DiscoverFrom(lines, root_name, in_tree_section, path_stack, tree_files) ==
    IF lines = << >> THEN tree_files
    ELSE LET line == Head(lines)
             stripped_line == Strip(line)
             Matched(m) ==
                 IF ~m.matched
                 THEN DiscoverFrom(Tail(lines), root_name, TRUE, path_stack, tree_files)
                 ELSE LET Next(e) ==
                              DiscoverFrom(Tail(lines), root_name, TRUE, e.stack, e.files)
                      IN  Next(TreeEntry(path_stack, tree_files, m.start,
                                         Strip(Split(m.name, "#")[1])))
         IN  IF ~in_tree_section
             THEN DiscoverFrom(Tail(lines), root_name, stripped_line = root_name \o <<"/">>,
                               path_stack, tree_files)
             ELSE IF stripped_line = <<>>
             THEN DiscoverFrom(Tail(lines), root_name, TRUE, path_stack, tree_files)
             ELSE IF stripped_line[1] = "#" /\ ~Contains(line, TREE_MARK) THEN tree_files
             ELSE Matched(TreeLineMatch(line))

\* ProjectParser(raw_dump, root_name)._discover_paths_from_tree()
discover_paths_from_tree(lines, root_name) ==
    DiscoverFrom(lines, root_name, FALSE, << >>, << >>)

(***************************************************************************)
(* tools/project_parser.py: ProjectParser._map_content_to_files, with the  *)
(* patterns and helpers of tools/parsing_utils.py                          *)
(***************************************************************************)
\* \w
WordChars == Letters \cup Digits \cup {"_"}

\* \b between the characters i - 1 and i of s
WordBoundary(s, i) ==
    (i > 1 /\ i - 1 <= Len(s) /\ s[i - 1] \in WordChars)
        # (i >= 1 /\ i <= Len(s) /\ s[i] \in WordChars)

RECURSIVE SpanLen(_, _, _)
\* the length of the longest run of characters of the set that starts at i
SpanLen(s, i, set) ==
    IF i <= Len(s) /\ s[i] \in set THEN 1 + SpanLen(s, i + 1, set) ELSE 0

\* the ends of "\.[a-zA-Z]{2,}\b" over the dots at the places ks + 1: the
\* letters are taken greedily, a shorter run ends inside a word
ExtEnds(s, ks) ==
    { k + 1 + SpanLen(s, k + 2, Letters) :
        k \in { k \in ks : /\ k + 1 <= Len(s) /\ s[k + 1] = "."
                           /\ SpanLen(s, k + 2, Letters) >= 2
                           /\ WordBoundary(s, k + 2 + SpanLen(s, k + 2, Letters)) } }

\* the end of the match of HEADING_PATH_EXTRACT_RE that starts at i, 0 if none
HeadingPathEnd(s, i) ==
    LET a == SpanLen(s, i, SafeChars)
        b == SpanLen(s, i + a + 1, SafeChars \cup {"/"})
        ends == IF WordBoundary(s, i) /\ a >= 1 /\ i + a <= Len(s) /\ s[i + a] = "/"
                THEN ExtEnds(s, (i + a + 1)..(i + a + b - 1))
                ELSE {}
    IN  IF ends = {} THEN 0 ELSE CHOOSE e \in ends : \A x \in ends : x <= e

\* the end of the match of HEADING_FILENAME_EXTRACT_RE that starts at i
HeadingFilenameEnd(s, i) ==
    LET a == SpanLen(s, i, SafeChars)
        ends == IF WordBoundary(s, i) /\ a >= 1
                THEN ExtEnds(s, i..(i + a - 1)) ELSE {}
    IN  IF ends = {} THEN 0 ELSE CHOOSE e \in ends : \A x \in ends : x <= e

\* pattern.search(line) for a pattern whose match from place i ends at
\* End(line, i): the leftmost match, None if there is none
SearchWith(End(_, _), line) ==
    LET starts == {i \in 1..Len(line) : End(line, i) > 0}
    IN  IF starts = {} THEN None
        ELSE LET i == CHOOSE i \in starts : \A j \in starts : i <= j
             IN  Some(SubSeq(line, i, End(line, i)))

\* FENCE_RE.match(line) of parsing_utils: blanks, three or more backticks or
\* tildes, letters and digits, blanks, the end of the line
FenceLineMatch(line) ==
    LET t == Strip(line)
        n == IF t # <<>> /\ t[1] \in FenceChars THEN RunLen(t, t[1]) ELSE 0
    IN  n >= 3 /\ \A i \in (n + 1)..Len(t) : t[i] \in Letters \cup Digits

\* _norm_rel(path)
norm_rel(path) ==
    LStripSet(LStripSet(ReplaceChar(StripSet(Strip(path), {BT}), "\\", "/"),
                        {".", "/"}),
              {"/"})

\* str.startswith
StartsWith(s, prefix) ==
    Len(s) >= Len(prefix) /\ SubSeq(s, 1, Len(prefix)) = prefix

\* str.endswith
EndsWith(s, suffix) ==
    Len(s) >= Len(suffix) /\ SubSeq(s, Len(s) - Len(suffix) + 1, Len(s)) = suffix

\* _strip_root_prefix(rel, root_name)
strip_root_prefix(rel, root_name) ==
    LET rn == norm_rel(root_name)
        r == norm_rel(rel)
    IN  IF StartsWith(r, rn \o <<"/">>) THEN SubSeq(r, Len(rn) + 2, Len(r)) ELSE r

\* no file context
NoContext == [some |-> FALSE, path |-> <<>>, heading |-> <<>>]

\* the file context a line outside a fence sets: the path of the heading if
\* it is one of the files, else the first file that has the heading's file
\* name; the context stays as it is when the line names no file
ContextOf(line, all_files, root_name, current) ==
    LET path_match == SearchWith(HeadingPathEnd, line)
        filename_match == SearchWith(HeadingFilenameEnd, line)
        ByName(fname) ==
            LET possible == SelectSeq(all_files,
                                      LAMBDA p : EndsWith(p, <<"/">> \o fname) \/ p = fname)
            IN  IF possible # << >>
                THEN [some |-> TRUE, path |-> possible[1], heading |-> line]
                ELSE current
        ByPath(path) ==
            IF \E k \in 1..Len(all_files) : all_files[k] = path
            THEN [some |-> TRUE, path |-> path, heading |-> line]
            ELSE IF filename_match.some THEN ByName(filename_match.v) ELSE current
    IN  IF path_match.some THEN ByPath(strip_root_prefix(norm_rel(path_match.v), root_name))
        ELSE IF filename_match.some THEN ByName(filename_match.v)
        ELSE current

\* found_content after the block of a context has closed: the block replaces
\* what the path had, or is appended under a heading with "continued"
MapBlock(found, ctx, block) ==
    LET text == Join(block, <<"\n">>)
        new == IF Contains(Lower(ctx.heading), <<"c", "o", "n", "t", "i", "n", "u", "e", "d">>)
                  /\ ctx.path \in DOMAIN found
               THEN found[ctx.path] \o <<"\n", "\n">> \o text
               ELSE text
    IN  [p \in DOMAIN found \cup {ctx.path} |-> IF p = ctx.path THEN new ELSE found[p]]

RECURSIVE MapFrom(_, _, _, _, _, _, _)
\* "for line in lines" of _map_content_to_files
MapFrom(lines, all_files, root_name, found, ctx, in_fence, block) ==
    IF lines = << >> THEN found
    ELSE LET line == Head(lines)
         IN  IF in_fence
             THEN IF FenceLineMatch(line)
                  THEN MapFrom(Tail(lines), all_files, root_name,
                               IF ctx.some THEN MapBlock(found, ctx, block) ELSE found,
                               NoContext, FALSE, << >>)
                  ELSE MapFrom(Tail(lines), all_files, root_name, found, ctx, TRUE,
                               Append(block, line))
             ELSE IF FenceLineMatch(line)
             THEN MapFrom(Tail(lines), all_files, root_name, found, ctx, TRUE, block)
             ELSE MapFrom(Tail(lines), all_files, root_name, found,
                          ContextOf(line, all_files, root_name, ctx), FALSE, block)

\* ProjectParser(raw_dump, root_name)._map_content_to_files(all_files)
map_content_to_files(lines, root_name, all_files) ==
    MapFrom(lines, all_files, root_name, [p \in {} |-> <<>>], NoContext, FALSE, << >>)

(***************************************************************************)
(* tools/llm_client.py: LLMClient.chat.  A response is its status code     *)
(* (0: client.post raised, no response), whether the body of a 200 is JSON,*)
(* the seconds of its Retry-After header and of a "try again in Ns" hint   *)
(* in the body (0: absent).                                                *)
(***************************************************************************)
\* LLM_BACKOFF_BASE_MS, the default
BACKOFF_BASE_MS == 800

\* LLM_BACKOFF_MAX_MS, the default
BACKOFF_MAX_MS == 8000

Min(a, b) == IF a <= b THEN a ELSE b

Max(a, b) == IF a >= b THEN a ELSE b

\* _sleep_for_rate_limit(r, preview, delay_ms): the next delay_ms
sleep_for_rate_limit(r, delay_ms) ==
    IF r.after > 0
    THEN Min(Max(Max(r.after * 1000, delay_ms) * 2, delay_ms), BACKOFF_MAX_MS)
    ELSE IF r.hint > 0
    THEN Min(Max((Max(r.hint * 1000, delay_ms) * 3) \div 2, delay_ms), BACKOFF_MAX_MS)
    ELSE Min(delay_ms * 2, BACKOFF_MAX_MS)

\* the "except Exception" branch of an attempt: the last attempt re-raises,
\* an earlier one sleeps and goes on (the exception is never an
\* httpx.HTTPStatusError: nothing calls raise_for_status)
ChatExcept(c, error) ==
    IF c.attempt = c.max_retries THEN [c EXCEPT !.pc = "raised", !.error = error]
    ELSE [c EXCEPT !.attempt = @ + 1,
                   !.delay_ms = Min(c.delay_ms * 2, BACKOFF_MAX_MS)]

\* an attempt that answers 429 without using up an attempt
ChatAttemptOn_Uncounted(c, r) ==
    IF r.status = 200 /\ r.json THEN [c EXCEPT !.pc = "returned"]
    ELSE IF r.status = 200 THEN ChatExcept(c, "JSONDecodeError")
    ELSE IF r.status = 429
    THEN [c EXCEPT !.delay_ms = sleep_for_rate_limit(r, c.delay_ms)]
    ELSE IF r.status \in {500, 502, 503, 504}
    THEN [c EXCEPT !.attempt = @ + 1,
                   !.delay_ms = Min(c.delay_ms * 2, BACKOFF_MAX_MS)]
    ELSE IF r.status = 0 THEN ChatExcept(c, "TransportError")
    ELSE ChatExcept(c, "RuntimeError")

\* one turn of "for attempt in range(1, self.max_retries + 1)" on response r
ChatAttemptOn(c, r) ==
    IF r.status = 200 /\ r.json THEN [c EXCEPT !.pc = "returned"]
    ELSE IF r.status = 200 THEN ChatExcept(c, "JSONDecodeError")
    ELSE IF r.status = 429
    THEN [c EXCEPT !.attempt = @ + 1,
                   !.delay_ms = sleep_for_rate_limit(r, c.delay_ms)]
    ELSE IF r.status \in {500, 502, 503, 504}
    THEN [c EXCEPT !.attempt = @ + 1,
                   !.delay_ms = Min(c.delay_ms * 2, BACKOFF_MAX_MS)]
    ELSE IF r.status = 0 THEN ChatExcept(c, "TransportError")
    ELSE ChatExcept(c, "RuntimeError")


(***************************************************************************)
(* tools/llm_utils.py                                                      *)
(***************************************************************************)
min_delay_ms == 1200

base_backoff == 800

max_backoff == 8000

RETRY_KEYWORDS ==
    {<<"4", "2", "9">>, <<"t", "o", "o", " ", "m", "a", "n", "y", " ", "r", "e", "q", "u", "e", "s", "t", "s">>, <<"r", "a", "t", "e", " ", "l", "i", "m", "i", "t">>, <<"t", "i", "m", "e", "o", "u", "t">>, <<"t", "e", "m", "p", "o", "r", "a", "r", "i", "l", "y">>,
      <<"s", "e", "r", "v", "e", "r", " ", "e", "r", "r", "o", "r">>, <<"b", "a", "d", " ", "g", "a", "t", "e", "w", "a", "y">>, <<"s", "e", "r", "v", "i", "c", "e", " ", "u", "n", "a", "v", "a", "i", "l", "a", "b", "l", "e">>, <<"5">>}

\* the exception of the attempt-th failed call is one to retry after
retriable(msg, attempt) ==
    \/ \E kw \in RETRY_KEYWORDS : Contains(msg, kw)
    \/ attempt <= 1 /\ (Contains(msg, <<"4", "0", "0">>) \/ Contains(msg, <<"b", "a", "d", " ", "r", "e", "q", "u", "e", "s", "t">>))

RECURSIVE Pow2(_)
Pow2(n) == IF n <= 0 THEN 1 ELSE 2 * Pow2(n - 1)

backoff_ms(attempt) == Min(max_backoff, base_backoff * Pow2(attempt - 1))

\* the ends of random.randint(int(backoff_ms * 0.15), int(backoff_ms * 0.45))
Jitters(b) == {(b * 15) \div 100, (b * 45) \div 100}

\* threading.Lock: nobody is inside "with _global_lock"
LockFree_Always(g) == TRUE

LockFree(g) == g.lock = 0

\* max(0, min_delay_ms - elapsed_ms)
wait_ms(g) ==
    LET elapsed_ms == g.now - g.last_call_ts
    IN  IF elapsed_ms >= min_delay_ms THEN 0 ELSE min_delay_ms - elapsed_ms

(***************************************************************************)
(* tools/codefill.py: _find_all_files                                      *)
(***************************************************************************)
\* the directory names the loop tests p.name against
NOISE_DIRS ==
    {<<"_", "_", "p", "y", "c", "a", "c", "h", "e", "_", "_">>, <<".", "g", "i", "t">>, <<".", "m", "y", "p", "y", "_", "c", "a", "c", "h", "e">>, <<".", "v", "e", "n", "v">>, <<"n", "o", "d", "e", "_", "m", "o", "d", "u", "l", "e", "s">>}

RECURSIVE PathLess(_, _)
\* a < b for two Path: part by part
PathLess(a, b) ==
    IF b = << >> THEN FALSE
    ELSE IF a = << >> THEN TRUE
    ELSE IF Head(a) = Head(b) THEN PathLess(Tail(a), Tail(b))
    ELSE StrLess(Head(a), Head(b))

RECURSIVE SortedPaths(_)
\* sorted(items) for a set of Path
SortedPaths(S) ==
    IF S = {} THEN << >>
    ELSE LET least == CHOOSE x \in S : \A y \in S \ {x} : PathLess(x, y)
         IN  <<least>> \o SortedPaths(S \ {least})

\* the test that keeps a file of rglob("*"): "continue" on a directory skips
\* that entry only, and rel.startswith(".git/") looks at the first segment
find_all_files_Keeps(files, root_dir, p) ==
    ~(Len(p) > Len(root_dir) + 1 /\ p[Len(root_dir) + 1] = <<".", "g", "i", "t">>)

\* _find_all_files(root_dir)
find_all_files(files, root_dir) ==
    SortedPaths({p \in DOMAIN files :
                    /\ Len(p) > Len(root_dir) /\ IsRelativeTo(p, root_dir)
                    /\ find_all_files_Keeps(files, root_dir, p)})
(***************************************************************************)
(* Bounded text: every string over an alphabet up to a length              *)
(***************************************************************************)
RECURSIVE StrsUpTo(_, _)
StrsUpTo(alphabet, n) ==
    IF n = 0 THEN {<<>>}
    ELSE LET shorter == StrsUpTo(alphabet, n - 1)
         IN  shorter \cup {Append(s, c) : s \in shorter, c \in alphabet}

(***************************************************************************)
(* SpecSan: sanitize_relpath applied to every bounded path string          *)
(***************************************************************************)
\* longest path string given to sanitize_relpath
MaxPathLen == 5

\* a letter, the dot, both separators, a blank and a character outside the
\* filename-safe class
SanAlphabet == {"a", ".", "/", "\\", " ", "!"}

SanIdle == [pc |-> "idle", arg |-> <<>>, out |-> None]

HdIdle == [pc |-> "idle", secs |-> << >>, rel |-> <<>>, out |-> None]

EuIdle == [pc |-> "idle", links |-> << >>, base |-> <<>>, rel |-> <<>>, out |-> Raised]

\* a filesystem with no file
NoFiles == [p \in {} |-> <<>>]

FillIdle == [pc |-> "idle"]

BuildIdle == [pc |-> "idle"]

\* the build variables of a state in which only a pure function is called
BuildVarsIdle == disk = NoFiles /\ fill = FillIdle /\ build = BuildIdle

TreeIdle == [pc |-> "idle"]

ChatIdle == [pc |-> "idle"]

GateIdle == [pc |-> "idle"]

CfIdle == [pc |-> "idle"]

AudIdle == [pc |-> "idle"]

PureIdle == [pc |-> "idle"]

\* the variables of the parser, the Gateway clients, codefill_run and the
\* audit runs, when the specification is about none of them
OtherVarsIdle ==
    /\ tree = TreeIdle /\ chat = ChatIdle /\ gate = GateIdle /\ cf = CfIdle /\ aud = AudIdle
    /\ pure = PureIdle

InitSan ==
    /\ OtherVarsIdle
    /\ BuildVarsIdle
    /\ san \in [pc : {"call"}, arg : StrsUpTo(SanAlphabet, MaxPathLen), out : {None}]
    /\ eu = EuIdle
    /\ hd = HdIdle

\* the call returns
SanitizeRelpath ==
    /\ san.pc = "call"
    /\ san' = [san EXCEPT !.pc = "done", !.out = sanitize_relpath(san.arg)]
    /\ UNCHANGED <<pure, eu, hd, disk, fill, build, tree, chat, gate, cf, aud>>

NextSan == SanitizeRelpath

SpecSan == InitSan /\ [][NextSan]_vars

\* the '/'-segments of a path string, backslashes read as separators
RawSegments(p) == Split(ReplaceChar(p, "\\", "/"), "/")

\* the path string has a segment that is exactly '..'
HasDotDotSegment(p) ==
    \E i \in 1..Len(RawSegments(p)) : RawSegments(p)[i] = <<".", ".">>

\* the path string with each '..' segment emptied ("a/../b" becomes "a//b")
WithoutDotDot(p) ==
    Join([i \in 1..Len(RawSegments(p)) |->
            IF RawSegments(p)[i] = <<".", ".">> THEN <<>> ELSE RawSegments(p)[i]],
         <<"/">>)

\* C1 as stated: a path with a '..' segment is rejected (sanitize_relpath
\* returns None).
C1_DotDotRejected ==
    (san.pc = "done" /\ HasDotDotSegment(san.arg)) => ~san.out.some

\* C1 amended: a path with a '..' segment is not rejected for it; the '..'
\* segments are dropped, and the result is the result for the same path
\* without them.
C1_DotDotDropped ==
    (san.pc = "done" /\ HasDotDotSegment(san.arg))
        => san.out = sanitize_relpath(WithoutDotDot(san.arg))

\* C1 witness: a path with a '..' segment came back as a path
C1_Witness ==
    san.pc = "done" /\ HasDotDotSegment(san.arg) /\ san.out.some

(***************************************************************************)
(* SpecEU: ensure_under applied to every bounded relative path, in a       *)
(* filesystem with and without symbolic links                              *)
(***************************************************************************)
\* longest rel string given to ensure_under
MaxRelLen == 5

\* two names, the dot and the separator
EuAlphabet == {"a", "l", ".", "/"}

\* /b/r: the base directory
DirBR == << <<"b">>, <<"r">> >>

\* /b/s: a second spelling of the base, a link to /b/r where links exist
DirBS == << <<"b">>, <<"s">> >>

\* /o: a directory outside the base
DirO == << <<"o">> >>

\* no link; /b/r/l -> /o and /b/s -> /b/r; /b/r/l -> /b/r/a and /b/s -> /b/r
EuLinkSets ==
    { << >>,
      (Append(DirBR, <<"l">>) :> DirO) @@ (DirBS :> DirBR),
      (Append(DirBR, <<"l">>) :> Append(DirBR, <<"a">>)) @@ (DirBS :> DirBR) }

InitEU ==
    /\ OtherVarsIdle
    /\ BuildVarsIdle
    /\ san = SanIdle
    /\ eu \in [pc : {"call"}, links : EuLinkSets, base : {DirBR, DirBS},
               rel : StrsUpTo(EuAlphabet, MaxRelLen), out : {Raised}]
    /\ hd = HdIdle

\* the call returns or raises
EnsureUnder ==
    /\ eu.pc = "call"
    /\ eu' = [eu EXCEPT !.pc = "done", !.out = ensure_under(eu.links, eu.base, eu.rel)]
    /\ UNCHANGED <<pure, san, hd, disk, fill, build, tree, chat, gate, cf, aud>>

NextEU == EnsureUnder

SpecEU == InitEU /\ [][NextEU]_vars

\* where a path really is: the path with every link followed
RealPath(links, path) == Resolve(links, path)

\* C3: ensure_under returns a path whose real location is the real base
\* directory or below it, or it raises; it never returns a path outside.
C3_ReturnedUnderBase ==
    (eu.pc = "done" /\ eu.out.ok)
        => IsRelativeTo(RealPath(eu.links, eu.out.path), RealPath(eu.links, eu.base))

\* C3 witness: with the base given through a link, a rel with a '..' segment
\* was accepted
C3_Witness ==
    /\ eu.pc = "done" /\ eu.out.ok
    /\ eu.base = DirBS /\ DirBS \in DOMAIN eu.links
    /\ \E i \in 1..Len(PathParts(eu.rel)) : PathParts(eu.rel)[i] = <<".", ".">>

(***************************************************************************)
(* SpecHead: _extract_from_headings applied to bounded dumps.  A dump is a *)
(* sequence of sections, each a heading line and, directly after it, a     *)
(* fenced block or nothing.                                                *)
(***************************************************************************)
\* most sections in a dump
MaxSections == 2

\* the project root name, a nested path and a bare file name outside the
\* whitelist
RootName == <<"r">>

PathP == <<"d", "/", "m", ".", "p", "y">>

PathF == <<"m", ".", "p", "y">>

\* the heading kinds: the number of '#', whether the token is backticked, and
\* the token
HeadKinds ==
    { [hashes |-> 2, quoted |-> FALSE, token |-> PathP],
      [hashes |-> 6, quoted |-> TRUE,  token |-> RootName \o <<"/">> \o PathP],
      [hashes |-> 7, quoted |-> FALSE, token |-> PathP],
      [hashes |-> 2, quoted |-> FALSE, token |-> PathF],
      [hashes |-> 3, quoted |-> TRUE,  token |-> RootName \o <<"/">> \o PathF] }

\* the opening fence lines: backticks with an info string, and tildes
OpenKinds == { [ch |-> BT, n |-> 3, info |-> <<"p", "y">>], [ch |-> "~", n |-> 3, info |-> <<>>] }

\* the bodies, as lines: one line, another line, no line at all, and two lines
\* of which the second begins with three backticks
BodyKinds == { << <<"x", " ", "=", " ", "1">> >>, << <<"y", " ", "=", " ", "2">> >>, << >>, << <<"x", " ", "=", " ", "1">>, <<BT, BT, BT, "z">> >> }

NoBlock == [present |-> FALSE, open |-> [ch |-> "~", n |-> 3, info |-> <<>>], body |-> << >>]

BlockKinds == {NoBlock} \cup [present : {TRUE}, open : OpenKinds, body : BodyKinds]

SectionKinds == [head : HeadKinds, block : BlockKinds]

\* n copies of character c
RECURSIVE Rep(_, _)
Rep(c, n) == IF n = 0 THEN <<>> ELSE <<c>> \o Rep(c, n - 1)

\* the text of a heading line
HeadLine(h) ==
    Rep("#", h.hashes) \o <<" ">>
        \o (IF h.quoted THEN <<BT>> \o h.token \o <<BT>> ELSE h.token)

\* the lines of a block: the opening fence with its info string, the body,
\* the closing fence (the same run, no info string)
BlockLines(b) ==
    IF ~b.present THEN << >>
    ELSE << Rep(b.open.ch, b.open.n) \o b.open.info >> \o b.body
            \o << Rep(b.open.ch, b.open.n) >>

RECURSIVE DumpLines(_)
\* the lines of a dump
DumpLines(secs) ==
    IF secs = << >> THEN << >>
    ELSE << HeadLine(Head(secs).head) >> \o BlockLines(Head(secs).block)
            \o DumpLines(Tail(secs))

RECURSIVE SeqsUpTo(_, _)
\* the sequences over a set up to a length
SeqsUpTo(S, n) ==
    IF n = 0 THEN {<< >>}
    ELSE LET shorter == SeqsUpTo(S, n - 1)
         IN  shorter \cup {Append(s, x) : s \in shorter, x \in S}

InitHead ==
    /\ OtherVarsIdle
    /\ BuildVarsIdle
    /\ san = SanIdle
    /\ eu = EuIdle
    /\ hd \in [pc : {"call"}, secs : SeqsUpTo(SectionKinds, MaxSections),
               rel : {PathP, PathF}, out : {None}]

\* _extract_from_headings(raw, root, rel) returns
ExtractFromHeadings ==
    /\ hd.pc = "call"
    /\ hd' = [hd EXCEPT !.pc = "done",
                        !.out = extract_from_headings(DumpLines(hd.secs), RootName, hd.rel)]
    /\ UNCHANGED <<pure, san, eu, disk, fill, build, tree, chat, gate, cf, aud>>

NextHead == ExtractFromHeadings

SpecHead == InitHead /\ [][NextHead]_vars

\* a heading of 2 to 6 '#' whose token is the path or root/path
NamesPath(h, rel) ==
    h.hashes \in 2..6 /\ h.token \in {rel, RootName \o <<"/">> \o rel}

\* a block whose body has a line and no line that begins with the run of
\* characters of its opening fence
PlainBlock(b) ==
    /\ b.present /\ b.body # << >>
    /\ \A i \in 1..Len(b.body) : RunLen(b.body[i], b.open.ch) < b.open.n

\* the body of a block as text
BodyText(b) == Join(b.body, <<"\n">>)

\* the sections whose heading names the path
NamingSections(secs, rel) == {i \in 1..Len(secs) : NamesPath(secs[i].head, rel)}

\* the heading token is one the extractor takes as a file: it has a '/', or
\* it is a whitelisted bare filename
TokenTaken(h) ==
    (\E i \in 1..Len(h.token) : h.token[i] = "/") \/ h.token \in WHITELIST_BARE_FILENAMES

\* C9: with two or more headings naming the path (each one the extractor
\* takes as a file), each followed by its own block with a different body,
\* the resolved content is the body after the last of them.
C9_LastHeadingWins ==
    LET ns == {i \in NamingSections(hd.secs, hd.rel) : TokenTaken(hd.secs[i].head)}
        last == CHOOSE i \in ns : \A j \in ns : j <= i
    IN  (/\ hd.pc = "done"
         /\ Cardinality(ns) >= 2
         /\ \A i \in ns : PlainBlock(hd.secs[i].block)
         /\ \A i, j \in ns : i # j => hd.secs[i].block.body # hd.secs[j].block.body)
        => hd.out = Some(BodyText(hd.secs[last].block))

MaxRuns == 2

\* /b: CODEFILL_FORCE_BASE_DIR
DirB == << <<"b">> >>

\* the environments: enabled in each mode, and disabled
FillEnvs ==
    { [enable |-> TRUE, mode |-> "overwrite", base |-> DirB, root_name |-> RootName],
      [enable |-> TRUE, mode |-> "skip", base |-> DirB, root_name |-> RootName],
      [enable |-> FALSE, mode |-> "overwrite", base |-> DirB, root_name |-> RootName] }

\* what _resolve_dump finds: no dump file, or one of two dumps
FillDumps == { NoDump, [found |-> TRUE, bytes |-> <<"A">>], [found |-> TRUE, bytes |-> <<"B">>] }

\* the paths the list pass may name: one in the root, and one that climbs out
\* of it through '..' segments in the middle
FillPathM == <<".", "/", "m", ".", "p", "y">>

FillPathUp == <<"d", "/", ".", ".", "/", ".", ".", "/", "o", ".", "p", "y">>

FillFileLists == { << >>, <<FillPathM>>, <<FillPathM, FillPathUp>> }

\* the root the list pass may name: none, or another project folder
FillRoots == { <<>>, <<"q">> }

\* the contents the blob pass may give: none, and text with and without
\* carriage returns
FillContents == { <<>>, <<"x", " ", "=", " ", "1", "\r", "\n">>, <<"y", " ", "=", " ", "2", "\n">> }

\* the files before the first run: none, or m.py with text the Gateway can
\* give again
FillInitFiles == { NoFiles, (DirBR \o << <<"m", ".", "p", "y">> >>) :> <<"x", " ", "=", " ", "1", "\r", "\n">> }

\* the answers to the list request: no list object, or a root and its files
ListAnswers ==
    { [valid |-> FALSE, root |-> <<>>, files |-> << >>] }
        \cup [valid : {TRUE}, root : FillRoots, files : FillFileLists]

\* the answers to one batch: no blobs object, or a content for each path
BatchAnswers(batch) ==
    { [valid |-> FALSE, items |-> << >>] }
        \cup { [valid |-> TRUE,
                items |-> [i \in 1..Len(batch) |-> [path |-> batch[i], content |-> c[i]]]] :
               c \in [1..Len(batch) -> FillContents] }

RECURSIVE AnswerSeqs(_)
\* one answer for every batch
AnswerSeqs(batches) ==
    IF batches = << >> THEN { << >> }
    ELSE { <<a>> \o rest : a \in BatchAnswers(Head(batches)),
                          rest \in AnswerSeqs(Tail(batches)) }

\* the answers to the blob requests that follow a list answer
BlobAnswers(listObj) ==
    AnswerSeqs(Chunk(llm_extract_file_list(listObj).files, LLM_MAX_BATCH))

\* no run yet
NoRun ==
    [ran |-> FALSE, dump |-> NoDump, skipped |-> FALSE, reason |-> "", raised |-> FALSE,
     calls |-> 0, root_dir |-> << >>, created |-> {}, updated |-> {}, from_dump |-> {},
     writes |-> {}, marked |-> FALSE]

\* what is observed of a run: the dump it found, what it returned or that it
\* raised, its Gateway calls, the files codefill_run wrote, and whether it
\* wrote the marker
RunRec(dump, r) ==
    [ran |-> TRUE, dump |-> dump, skipped |-> r.skipped, reason |-> r.reason,
     raised |-> r.raised, calls |-> r.calls, root_dir |-> r.root_dir, created |-> r.created,
     updated |-> r.updated, from_dump |-> r.from_dump, writes |-> r.writes,
     marked |-> r.marked]

InitFill ==
    /\ OtherVarsIdle
    /\ san = SanIdle
    /\ eu = EuIdle
    /\ hd = HdIdle
    /\ build = BuildIdle
    /\ disk \in FillInitFiles
    /\ fill \in [pc : {"ready"}, env : FillEnvs, n : {0}, last : {NoRun}, prev : {NoRun}]

\* one run of maybe_run_codefill_once, from its first line to its return
MaybeRunCodefillOnce ==
    /\ fill.pc = "ready"
    /\ fill.n < MaxRuns
    /\ \E dump \in FillDumps, listObj \in ListAnswers, markerOk \in BOOLEAN :
         \E answers \in BlobAnswers(listObj) :
            LET Return(r) ==
                    /\ disk' = r.files
                    /\ fill' = [fill EXCEPT !.n = @ + 1, !.prev = fill.last,
                                            !.last = RunRec(dump, r)]
            IN  Return(maybe_run_codefill_once(disk, fill.env, dump, listObj, answers,
                                               markerOk))
    /\ UNCHANGED <<pure, san, eu, hd, build, tree, chat, gate, cf, aud>>

NextFill == MaybeRunCodefillOnce

SpecFill == InitFill /\ [][NextFill]_vars

\* C2: every file that a build writes or creates is located under the run's
\* root directory, whatever paths the list pass returns (here: the files
\* codefill_run wrote, against the root directory it built in).
C2_WritesUnderRoot ==
    (fill.pc = "ready" /\ fill.last.ran /\ ~fill.last.skipped /\ ~fill.last.raised)
        => \A p \in fill.last.writes : IsRelativeTo(p, fill.last.root_dir)

\* the run just made follows a run that returned, and found the same dump
SameDumpAgain ==
    /\ fill.pc = "ready" /\ fill.last.ran /\ fill.prev.ran
    /\ ~fill.prev.raised
    /\ fill.last.dump.found /\ fill.last.dump = fill.prev.dump

\* the run skipped the whole build and reported the dump unchanged
SkippedUnchanged ==
    /\ ~fill.last.raised /\ fill.last.skipped /\ fill.last.reason = "dump unchanged"
    /\ fill.last.calls = 0 /\ fill.last.writes = {} /\ ~fill.last.marked

\* C6: of two runs in succession with the same dump bytes and root settings,
\* the first having completed, the second skips the whole build: no Gateway
\* call, no project file written, the dump reported unchanged.
C6_SecondRunSkips == SameDumpAgain => SkippedUnchanged

\* the run before left the marker holding its dump's hash: it built and its
\* marker write succeeded, or it skipped because the marker already held it
MarkerKept ==
    \/ fill.prev.marked
    \/ fill.prev.skipped /\ fill.prev.reason = "dump unchanged"

\* C6, amended: the second run skips when moreover the first run's marker
\* write succeeded (codefill being enabled).
C6_MarkedRunSkips == (SameDumpAgain /\ MarkerKept) => SkippedUnchanged

\* C6 witness: the first run built files and wrote its marker, the second
\* found the same dump and skipped
C6_Witness ==
    /\ SameDumpAgain /\ fill.prev.marked /\ fill.prev.writes # {}
    /\ SkippedUnchanged

(***************************************************************************)
(* SpecBuild: one call of build_from_text on a root directory that may     *)
(* hold files already, with the normaliser's result and the Gateway's      *)
(* answers of the call                                                     *)
(***************************************************************************)
\* README.md, a whitelisted bare filename
PathReadme == <<"R", "E", "A", "D", "M", "E", ".", "m", "d">>

\* contents: a line, another line, a text under five characters, a text with
\* the stub marker, and a completion with blanks around it
TextX == <<"x", " ", "=", " ", "1">>

TextY == <<"y", " ", "=", " ", "2">>

TextThin == <<"x", "=", "1">>

TextStub == <<"#", " ", "A", "u", "t", "o", "-", "b", "a", "c", "k", "f", "i", "l", "l", "e", "d", " ", "s", "t", "u", "b">>

TextZ == <<" ", "z", " ", "=", " ", "3", "\n">>

\* /b/r/d/m.py and /b/r/README.md
FileP == DirBR \o << <<"d">>, <<"m", ".", "p", "y">> >>

FileReadme == DirBR \o << PathReadme >>

\* the files before the call: d/m.py absent, empty, with either line or with
\* a stub; README.md absent or with a line
BuildInitFiles ==
    { [f \in {FileP : x \in {1} \cap {IF p.some THEN 1 ELSE 0}}
              \cup {FileReadme : x \in {1} \cap {IF r.some THEN 1 ELSE 0}} |->
          IF f = FileP THEN p.v ELSE r.v] :
      p \in {None} \cup {Some(c) : c \in {<<>>, TextX, TextY, TextStub}},
      r \in {None, Some(TextX)} }

\* a section that names d/m.py and gives a body
SecP(body) ==
    [head |-> [hashes |-> 2, quoted |-> FALSE, token |-> PathP],
     block |-> [present |-> TRUE, open |-> [ch |-> "~", n |-> 3, info |-> <<>>],
                body |-> body]]

\* the dumps: no section, d/m.py with either line, d/m.py with a blank line
BuildDumps == { << >>, <<SecP(<<TextX>>)>>, <<SecP(<<TextY>>)>>, <<SecP(<< <<" ">> >>)>> }

\* the normaliser's results: TypeError, or a root, the files of the tree and
\* the bodies found
BuildTreeFiles == { << >>, <<PathReadme>>, <<PathP>> }

BuildFilesOut ==
    { [r \in {} |-> <<>>], PathP :> <<>>, PathP :> TextThin, PathP :> TextX,
      PathP :> TextY, FillPathUp :> TextX }

BuildNormalized ==
    { NormTypeError }
        \cup [typeError : {FALSE}, root : {RootName}, tree_files : BuildTreeFiles,
              files_out : BuildFilesOut]

\* what _chat gives to a request: an exception, an empty completion, a text
ChatAnswers == { [err |-> TRUE, text |-> <<>>], [err |-> FALSE, text |-> <<>>],
                 [err |-> FALSE, text |-> TextZ] }

\* the Gateway of a build: no provider key, or a key and its two answers
BuildGateways ==
    { [keys |-> FALSE, ext |-> [err |-> TRUE, text |-> <<>>], bf |-> [err |-> TRUE, text |-> <<>>]] }
        \cup [keys : {TRUE}, ext : ChatAnswers, bf : ChatAnswers]

InitBuild ==
    /\ OtherVarsIdle
    /\ san = SanIdle
    /\ eu = EuIdle
    /\ hd = HdIdle
    /\ fill = FillIdle
    /\ disk \in BuildInitFiles
    /\ build = [pc |-> "call"]

\* build_from_text, from its first line to its return or its exception
BuildFromText ==
    /\ build.pc = "call"
    /\ \E secs \in BuildDumps, dump \in BuildNormalized, mode \in {"skip", "overwrite"},
          verify \in BOOLEAN, gw \in BuildGateways :
         LET Return(r) ==
                 /\ disk' = r.files
                 /\ build' = [pc |-> "done", secs |-> secs, dump |-> dump, mode |-> mode,
                              verify |-> verify, gw |-> gw, pre |-> disk,
                              raised |-> r.raised, root_dir |-> r.root_dir,
                              declared |-> r.declared, created |-> r.created,
                              skipped |-> r.skipped, wrote |-> r.wrote,
                              audited |-> r.audited,
                              audit |-> [r.audit EXCEPT !.files = << >>]]
         IN  Return(build_from_text(disk, DumpLines(secs), DirB, dump, mode, verify, gw))
    /\ UNCHANGED <<pure, san, eu, hd, fill, tree, chat, gate, cf, aud>>

NextBuild == BuildFromText

SpecBuild == InitBuild /\ [][NextBuild]_vars

\* the body the normaliser gave for a path: dump.files_out.get(rel, "")
StructuredBody(rel) ==
    IF rel \in DOMAIN build.dump.files_out THEN build.dump.files_out[rel] ELSE <<>>

\* the file of a declared path
TargetOf(rel) == FileAt(build.root_dir, rel)

\* the content of a file, or None where there is no file
ContentAt(files, path) == IF path \in DOMAIN files THEN Some(ReadText(files, path)) ELSE None

\* the build returned
BuildReturned == build.pc = "done" /\ build.raised = "none"

Audited == BuildReturned /\ build.audited

\* the stages that ran for a path, in order
StagesOf(rel) ==
    IF rel \in DOMAIN build.audit.log THEN build.audit.log[rel].stages ELSE << >>

\* a stage ran for a path
Ran(rel, stage) == stage \in Elems(StagesOf(rel))

\* the deterministic fence match of a path in the dump of the build
FenceOf(rel) == extract_from_headings(DumpLines(build.secs), build.dump.root, rel)

\* what single-file extraction and fabrication give for a path
ExtractOf(rel) == llm_extract_single_file(build.gw)

BackfillOf(rel) == llm_backfill_file(rel, build.gw)

\* the content of a path's file when the build ends
FinalOf(rel) == ContentAt(disk, TargetOf(rel))

\* the content of a path's file when the audit reaches it: the structured
\* body if the write loop wrote it, else what the file held before the build
AtAuditOf(rel) ==
    IF TargetOf(rel) \in build.wrote THEN Some(StructuredBody(rel))
    ELSE ContentAt(build.pre, TargetOf(rel))

Refillable(c) ==
    \/ ~c.some
    \/ Strip(c.v) = <<>>
    \/ Len(Strip(c.v)) < 5
    \/ Contains(c.v, <<"A", "u", "t", "o", "-", "b", "a", "c", "k", "f", "i", "l", "l", "e", "d", " ", "s", "t", "u", "b">>)

MaxEntries == 3

\* the root of the trees
TreeRoot == <<"d", "e", "m", "o">>

\* the names of the entries: directories end in "/"; files with a text
\* extension, a whitelisted bare name, and a name that is neither
TreeNames == { <<"a", "p", "p", "/">>, <<"l", "i", "b", "/">>, <<"m", "a", "i", "n", ".", "p", "y">>, <<"R", "E", "A", "D", "M", "E", ".", "m", "d">>, <<"M", "a", "k", "e", "f", "i", "l", "e">> }

IsDirName(name) == name[Len(name)] = "/"

\* an entry may go one level below a directory just before it, or to any
\* level above
WellFormedTree(t) ==
    \A i \in 1..Len(t) :
        IF i = 1 THEN t[i].depth = 1
        ELSE t[i].depth <= t[i - 1].depth + (IF IsDirName(t[i - 1].name) THEN 1 ELSE 0)

\* the trees: their entries in document order, each with its depth
TreeShapes ==
    { t \in SeqsUpTo([depth : 1..MaxEntries, name : TreeNames], MaxEntries) :
        WellFormedTree(t) }

\* entry i is followed, within the directory that holds level k of its
\* path, by another entry of level k
HasLater(t, i, k) ==
    \E j \in (i + 1)..Len(t) :
        t[j].depth = k /\ \A m \in (i + 1)..(j - 1) : t[m].depth >= k

RECURSIVE TreePrefix(_, _, _)
\* the bars and blanks in front of the connector of entry i, from level k on
TreePrefix(t, i, k) ==
    IF k >= t[i].depth THEN <<>>
    ELSE (IF HasLater(t, i, k) THEN <<VBAR, " ", " ", " ">> ELSE <<" ", " ", " ", " ">>)
            \o TreePrefix(t, i, k + 1)

\* the line of entry i
TreeLine(t, i) ==
    TreePrefix(t, i, 1)
        \o <<IF HasLater(t, i, t[i].depth) THEN TEE ELSE ELL, HBAR, HBAR, " ">>
        \o t[i].name

\* the lines before the root line: none, or a title
TreeBefore == { << >>, << <<"#", " ", "d", "e", "m", "o">> >> }

\* the lines after the tree: none, or a blank line and a heading
TreeAfter == { << >>, << <<>>, <<"#", "#", " ", "a", "p", "p", "/", "m", "a", "i", "n", ".", "p", "y">> >> }

\* the dump: the lines before, the root line, the tree, the lines after
TreeDump(before, t, after) ==
    before \o << TreeRoot \o <<"/">> >> \o [i \in 1..Len(t) |-> TreeLine(t, i)] \o after

\* the directory of level k that holds entry i
AncestorOf(t, i, k) ==
    t[CHOOSE j \in 1..(i - 1) :
          t[j].depth = k /\ \A m \in (j + 1)..i : t[m].depth > k].name

\* the path of entry i: its ancestors' names and its own, joined by "/"
EntryPath(t, i) ==
    Join([k \in 1..(t[i].depth - 1) |-> RStripSet(AncestorOf(t, i, k), {"/"})]
             \o <<t[i].name>>, <<"/">>)

RECURSIVE TreeFilesFrom(_, _)
\* the files of a tree from entry i on, in document order
TreeFilesFrom(t, i) ==
    IF i > Len(t) THEN << >>
    ELSE (IF IsDirName(t[i].name) THEN << >> ELSE <<EntryPath(t, i)>>)
            \o TreeFilesFrom(t, i + 1)

TreeFiles(t) == TreeFilesFrom(t, 1)

InitTree ==
    /\ san = SanIdle /\ eu = EuIdle /\ hd = HdIdle
    /\ BuildVarsIdle
    /\ chat = ChatIdle /\ gate = GateIdle /\ cf = CfIdle /\ aud = AudIdle
    /\ pure = PureIdle
    /\ tree \in [pc : {"call"}, before : TreeBefore, entries : TreeShapes \ {<< >>},
                 after : TreeAfter, out : {<< >>}]

\* the call, from its first line to its return
DiscoverPathsFromTree ==
    /\ tree.pc = "call"
    /\ tree' = [tree EXCEPT
                   !.pc = "done",
                   !.out = discover_paths_from_tree(
                               TreeDump(tree.before, tree.entries, tree.after), TreeRoot)]
    /\ UNCHANGED <<pure, san, eu, hd, disk, fill, build, chat, gate, cf, aud>>

NextTree == DiscoverPathsFromTree

SpecTree == InitTree /\ [][NextTree]_vars

MaxRetries == 3

\* the answers to one request
ChatResponses ==
    [status : {200}, json : BOOLEAN, after : {0}, hint : {0}]
        \cup [status : {429}, json : {FALSE}, after : {0, 1}, hint : {0, 2}]
        \cup [status : {500, 502, 503, 504, 400, 401, 404, 0}, json : {FALSE},
              after : {0}, hint : {0}]

InitChat ==
    /\ san = SanIdle /\ eu = EuIdle /\ hd = HdIdle
    /\ BuildVarsIdle
    /\ tree = TreeIdle /\ gate = GateIdle /\ cf = CfIdle /\ aud = AudIdle
    /\ pure = PureIdle
    /\ chat \in [pc : {"call"}, max_retries : 0..MaxRetries, attempt : {1},
                 delay_ms : {BACKOFF_BASE_MS}, log : {<< >>}, error : {"none"}]

\* the lines of chat before its loop: the payload and the throttle sleep
ChatBegin ==
    /\ chat.pc = "call"
    /\ chat' = [chat EXCEPT !.pc = "loop"]
    /\ UNCHANGED <<pure, san, eu, hd, disk, fill, build, tree, gate, cf, aud>>

\* one attempt: the request is sent and answered
ChatAttempt ==
    /\ chat.pc = "loop"
    /\ chat.attempt <= chat.max_retries
    /\ \E r \in ChatResponses :
          chat' = ChatAttemptOn([chat EXCEPT !.log = Append(@, r)], r)
    /\ UNCHANGED <<pure, san, eu, hd, disk, fill, build, tree, gate, cf, aud>>

\* the loop ran out: raise RuntimeError("Exhausted retries")
ChatExhausted ==
    /\ chat.pc = "loop"
    /\ chat.attempt > chat.max_retries
    /\ chat' = [chat EXCEPT !.pc = "raised", !.error = "Exhausted retries"]
    /\ UNCHANGED <<pure, san, eu, hd, disk, fill, build, tree, gate, cf, aud>>

NextChat == ChatBegin \/ ChatAttempt \/ ChatExhausted

SpecChat == InitChat /\ [][NextChat]_vars

\* the call runs on: the thread that called chat is scheduled, client.post
\* returns or raises within its timeout, and every sleep ends
SpecChatLive == SpecChat /\ WF_vars(NextChat)

\* the call is over
ChatDone == chat.pc \in {"returned", "raised"}

\* C12: after an answer with a 4xx status other than 429 the client makes no
\* further request for that call.
C12_NoRetryOnClientError ==
    chat.pc # "idle" =>
        \A i \in 1..(Len(chat.log) - 1) : chat.log[i].status \notin {400, 401, 404}

\* what the claim says of a call in progress or over, good being the answers
\* on which chat returns: no more than max_retries requests; a good answer
\* is the last one and the call returned on it; the call returns on nothing
\* else; after a 429 or a 5xx the call goes on while attempts remain
ChatContract(good) ==
    chat.pc \in {"loop", "returned", "raised"} =>
        /\ Len(chat.log) <= chat.max_retries
        /\ \A i \in 1..Len(chat.log) :
              chat.log[i] \in good => (i = Len(chat.log) /\ chat.pc = "returned")
        /\ chat.pc = "returned" => (chat.log # << >> /\ chat.log[Len(chat.log)] \in good)
        /\ (chat.log # << >> /\ Len(chat.log) < chat.max_retries
               /\ chat.log[Len(chat.log)].status \in {429, 500, 502, 503, 504})
              => chat.pc = "loop"

MaxThreads == 2

MaxGateRetries == 1

TickMs == 200

MaxTime == 2400

Threads == 1..MaxThreads

\* str(e).lower() of what fn() raises
GateErrors == {<<"4", "2", "9">>, <<"4", "0", "0">>, <<"4", "0", "1">>}

InitGate ==
    /\ san = SanIdle /\ eu = EuIdle /\ hd = HdIdle
    /\ BuildVarsIdle
    /\ tree = TreeIdle /\ chat = ChatIdle /\ cf = CfIdle /\ aud = AudIdle
    /\ pure = PureIdle
    /\ gate \in [pc : {"run"}, now : {0, min_delay_ms}, lock : {0}, last_call_ts : {0},
                 max_retries : 0..MaxGateRetries,
                 called : {FALSE}, prev_start : {0},
                 followed : {FALSE}, since_prev : {0},
                 th : [Threads -> [pc : {"loop"}, attempt : {0}, wake : {0},
                                   last_err : {<< >>}]]]

GateOthers == UNCHANGED <<pure, san, eu, hd, disk, fill, build, tree, chat, cf, aud>>

\* with _global_lock: ... wait_ms = max(0, min_delay_ms - elapsed_ms)
GateAcquire(t) ==
    /\ gate.pc = "run" /\ gate.th[t].pc = "loop"
    /\ gate.th[t].attempt <= gate.max_retries
    /\ LockFree(gate)
    /\ gate' = [gate EXCEPT !.lock = t,
                            !.th[t].pc = "throttle",
                            !.th[t].wake = gate.now + wait_ms(gate)]
    /\ GateOthers

\* the throttle sleep is over: fn() begins
GateCall(t) ==
    /\ gate.pc = "run" /\ gate.th[t].pc = "throttle"
    /\ gate.now >= gate.th[t].wake
    /\ gate' = [gate EXCEPT !.th[t].pc = "calling",
                            !.followed = gate.called,
                            !.since_prev = IF gate.called
                                           THEN gate.now - gate.prev_start ELSE 0,
                            !.called = TRUE,
                            !.prev_start = gate.now]
    /\ GateOthers

\* result = fn(); _last_call_ts = _now(); return result
GateReturn(t) ==
    /\ gate.pc = "run" /\ gate.th[t].pc = "calling"
    /\ gate' = [gate EXCEPT !.last_call_ts = gate.now,
                            !.lock = 0,
                            !.th[t].pc = "returned"]
    /\ GateOthers

\* except Exception as e: give up, or leave the lock and sleep delay_ms
GateExcept(t) ==
    /\ gate.pc = "run" /\ gate.th[t].pc = "calling"
    /\ \E msg \in GateErrors :
         LET attempt == gate.th[t].attempt + 1
         IN  IF ~retriable(msg, attempt) \/ attempt > gate.max_retries
             THEN gate' = [gate EXCEPT !.lock = 0,
                                       !.th[t].pc = "raised",
                                       !.th[t].attempt = attempt,
                                       !.th[t].last_err = msg]
             ELSE \E jitter \in Jitters(backoff_ms(attempt)) :
                    gate' = [gate EXCEPT !.lock = 0,
                                         !.th[t].pc = "backoff",
                                         !.th[t].attempt = attempt,
                                         !.th[t].last_err = msg,
                                         !.th[t].wake =
                                             gate.now + backoff_ms(attempt) + jitter]
    /\ GateOthers

\* _sleep_ms(delay_ms) is over: the loop goes round
GateWake(t) ==
    /\ gate.pc = "run" /\ gate.th[t].pc = "backoff"
    /\ gate.now >= gate.th[t].wake
    /\ gate' = [gate EXCEPT !.th[t].pc = "loop"]
    /\ GateOthers

\* time passes
GateTick ==
    /\ gate.pc = "run" /\ gate.now + TickMs <= MaxTime
    /\ gate' = [gate EXCEPT !.now = gate.now + TickMs]
    /\ GateOthers

NextGate ==
    \/ \E t \in Threads : GateAcquire(t)
    \/ \E t \in Threads : GateCall(t)
    \/ \E t \in Threads : GateReturn(t)
    \/ \E t \in Threads : GateExcept(t)
    \/ \E t \in Threads : GateWake(t)
    \/ GateTick

SpecGate == InitGate /\ [][NextGate]_vars

\* the threads whose fn() is executing
GateCalling == {t \in Threads : gate.th[t].pc = "calling"}

\* C14: under concurrent use of llm_call_with_retry, never are two wrapped
\* Gateway calls executing at the same time.
C14_OneCallAtATime ==
    gate.pc = "run" => Cardinality(GateCalling) <= 1

\* C14 witness: one thread's call is executing while another thread stands
\* before the lock
C14_Witness ==
    /\ gate.pc = "run"
    /\ \E t, u \in Threads :
         /\ t # u
         /\ gate.th[t].pc = "calling" /\ gate.lock = t
         /\ gate.th[u].pc = "loop"

\* C15: when a wrapped Gateway call begins, at least LLM_MIN_DELAY_MS have
\* passed since the most recent earlier wrapped call, made by any thread,
\* failed or not, a retry of the same call included.
C15_MinDelayBetweenCalls ==
    (gate.pc = "run" /\ gate.followed) => gate.since_prev >= min_delay_ms

(***************************************************************************)
(* SpecRun: one call of parse_dump_bundle or of codefill_run, with the     *)
(* root strings the list pass can return and files that stand where a      *)
(* directory is needed. cf holds the call's arguments and what it returned. *)
(***************************************************************************)
MaxRootLen == 3

\* the characters of a root string: a letter, the separator, the dot
RunRootChars == {"q", "/", "."}

RunRoots == StrsUpTo(RunRootChars, MaxRootLen)

\* root_hint: none, or the name of the root directory
RunHints == { <<>>, RootName }

RunPathM == <<"m", ".", "p", "y">>

RunPathQ == <<"q", "/", "m", ".", "p", "y">>

RunPathN == <<"n", ".", "p", "y">>

\* a name whose leading dot is followed by a space: the list pass strips the
\* dot and keeps the space, the blob pass and the write loop strip both
RunPathSpaced == <<".", " ", "m", ".", "p", "y">>

\* a name that starts with a dot
RunPathEnv == <<".", "e", "n", "v">>

RunFileLists ==
    { << >>, <<RunPathM>>, <<RunPathQ, RunPathN>>, <<RunPathM, RunPathSpaced>>,
      <<RunPathEnv>> }

\* the files before the call: none, a file where the root's directory q
\* would be, a file where the directory q beside the root would be
RunInitFiles ==
    { NoFiles,
      (DirBR \o << <<"q">> >>) :> <<"f", "\n">>,
      (DirB \o << <<"q">> >>) :> <<"f", "\n">> }

RunListAnswers ==
    { [valid |-> FALSE, root |-> <<>>, files |-> << >>] }
        \cup [valid : {TRUE}, root : RunRoots, files : RunFileLists]

\* the answers to one batch: those of BatchAnswers, and the ones that give
\* each path back with './' before it
RunBatchAnswers(batch) ==
    BatchAnswers(batch)
        \cup { [valid |-> TRUE,
                items |-> [i \in 1..Len(batch) |->
                              [path |-> <<".", "/">> \o batch[i], content |-> c[i]]]] :
               c \in [1..Len(batch) -> FillContents] }

RECURSIVE RunAnswerSeqs(_)
\* one answer for every batch
RunAnswerSeqs(batches) ==
    IF batches = << >> THEN { << >> }
    ELSE { <<a>> \o rest : a \in RunBatchAnswers(Head(batches)),
                          rest \in RunAnswerSeqs(Tail(batches)) }

\* the answers to the blob requests that follow a list answer
RunBlobAnswers(listObj) ==
    RunAnswerSeqs(Chunk(llm_extract_file_list(listObj).files, LLM_MAX_BATCH))

\* a request of the call was answered with no valid object
GatewayFailed(listObj, answers) ==
    ~listObj.valid \/ \E i \in 1..Len(answers) : ~answers[i].valid

InitRun ==
    /\ san = SanIdle /\ eu = EuIdle /\ hd = HdIdle
    /\ fill = FillIdle /\ build = BuildIdle
    /\ tree = TreeIdle /\ chat = ChatIdle /\ gate = GateIdle /\ aud = AudIdle
    /\ pure = PureIdle
    /\ disk \in RunInitFiles
    /\ cf = [pc |-> "ready"]

\* parse_dump_bundle(raw_dump, root_hint), from its first line to its return
ParseDumpBundle ==
    /\ cf.pc = "ready"
    /\ \E root_hint \in RunHints, listObj \in RunListAnswers :
         \E answers \in RunBlobAnswers(listObj) :
            LET Return(b) ==
                    cf' = [pc |-> "done", op |-> "parse_dump_bundle",
                           root_hint |-> root_hint, mode |-> "",
                           listObj |-> listObj, answers |-> answers, pre |-> disk,
                           raised |-> b.raised, calls |-> b.calls, root |-> b.root,
                           root_dir |-> << >>, created |-> {}, updated |-> {},
                           from_dump |-> {}, writes |-> {}]
            IN  Return(parse_dump_bundle(root_hint, listObj, answers))
    /\ UNCHANGED <<pure, san, eu, hd, disk, fill, build, tree, chat, gate, aud>>

\* codefill_run(dump_file, /b/r, mode), from its first line to its return
CodefillRun ==
    /\ cf.pc = "ready"
    /\ \E mode \in {"overwrite", "skip"}, listObj \in RunListAnswers :
         \E answers \in RunBlobAnswers(listObj) :
            LET Return(r) ==
                    /\ disk' = r.files
                    /\ cf' = [pc |-> "done", op |-> "codefill_run",
                              root_hint |-> RootName, mode |-> mode,
                              listObj |-> listObj, answers |-> answers, pre |-> disk,
                              raised |-> r.raised, calls |-> r.calls,
                              root |-> Strip(listObj.root),
                              root_dir |-> r.root_dir, created |-> r.created,
                              updated |-> r.updated, from_dump |-> r.from_dump,
                              writes |-> r.writes]
            IN  Return(codefill_run(disk, DirBR, mode, listObj, answers))
    /\ UNCHANGED <<pure, san, eu, hd, fill, build, tree, chat, gate, aud>>

NextRun == ParseDumpBundle \/ CodefillRun

SpecRun == InitRun /\ [][NextRun]_vars

\* C16: a Gateway failure during structure inference never aborts the
\* build: parse_dump_bundle and codefill_run do not raise.
C16_GatewayFailureNotFatal ==
    (cf.pc = "done" /\ GatewayFailed(cf.listObj, cf.answers)) => ~cf.raised

\* C17: when writing one file fails, here because a component of its path
\* is an existing file, the build does not raise (the path is reported as
\* failed and the remaining files are processed).
C17_WriteFailureNotFatal ==
    (cf.pc = "done" /\ cf.op = "codefill_run" /\ ~GatewayFailed(cf.listObj, cf.answers))
        => ~cf.raised

\* the root the list pass inferred in the call that is over
RunInferred == Strip(cf.listObj.root)

C19_RootIsChildOfBase ==
    (cf.pc = "done" /\ cf.op = "codefill_run" /\ ~cf.raised) =>
        LET name == IF RunInferred # <<>> THEN RunInferred ELSE cf.root_hint
        IN  /\ ~Contains(name, <<"/">>)
            /\ name # <<".", ".">>
            /\ Parent(cf.root_dir) = DirB

(***************************************************************************)
(* SpecAudit: audit_and_fill run again and again on the root directory     *)
(* /b/r for the declared file d/m.py, each run with its own dump and its   *)
(* own Gateway. aud.last and aud.prev hold, of the last two runs, the      *)
(* Gateway and what the run did for each path.                             *)
(***************************************************************************)
MaxAudits == 2

NoAudit == [ran |-> FALSE, gw |-> [keys |-> FALSE], log |-> [r \in {} |-> << >>],
            pre |-> NoFiles, created |-> << >>, updated |-> << >>,
            llm_filled |-> << >>, unchanged |-> << >>, failed |-> << >>]

InitAudit ==
    /\ san = SanIdle /\ eu = EuIdle /\ hd = HdIdle
    /\ fill = FillIdle /\ build = BuildIdle
    /\ tree = TreeIdle /\ chat = ChatIdle /\ gate = GateIdle /\ cf = CfIdle
    /\ pure = PureIdle
    /\ disk \in BuildInitFiles
    /\ aud = [pc |-> "ready", n |-> 0, last |-> NoAudit, prev |-> NoAudit]

\* audit_and_fill(raw_dump, /b/r, ["d/m.py"], "r"), from its first line to
\* its return
AuditAndFill ==
    /\ aud.pc = "ready"
    /\ aud.n < MaxAudits
    /\ \E secs \in BuildDumps, gw \in BuildGateways :
         LET Return(r) ==
                 /\ disk' = r.files
                 /\ aud' = [aud EXCEPT !.n = @ + 1, !.prev = aud.last,
                                       !.last = [ran |-> TRUE, gw |-> gw, log |-> r.log,
                                                 pre |-> disk, created |-> r.created,
                                                 updated |-> r.updated,
                                                 llm_filled |-> r.llm_filled,
                                                 unchanged |-> r.unchanged,
                                                 failed |-> r.failed]]
         IN  Return(audit_and_fill(disk, DumpLines(secs), DirBR, <<PathP>>, RootName, gw))
    /\ UNCHANGED <<pure, san, eu, hd, fill, build, tree, chat, gate, cf>>

NextAudit == AuditAndFill

SpecAudit == InitAudit /\ [][NextAudit]_vars

\* the run wrote, as the content of d/m.py, the stub llm_backfill_file
\* returns without a provider key or when its Gateway call raises
LeftStub(run) ==
    /\ run.ran /\ PathP \in DOMAIN run.log
    /\ "backfill" \in Elems(run.log[PathP].stages)
    /\ ~run.gw.keys \/ run.gw.bf.err

\* the run found no usable fenced body for d/m.py in its dump
NoFence(run) ==
    /\ run.ran /\ PathP \in DOMAIN run.log
    /\ ~(run.log[PathP].fence.some /\ NonBlank(run.log[PathP].fence.v))

\* C20: a file whose content is the stub a failed or unavailable backfill
\* left is treated as empty by the next audit_and_fill run: single-file
\* extraction (and then backfill) is attempted again for it.
C20_StubIsRetried ==
    (aud.pc = "ready" /\ LeftStub(aud.prev) /\ NoFence(aud.last))
        => "extract" \in Elems(aud.last.log[PathP].stages)

\* a bare filename: a path string with no separator
BareName(p) == p # <<>> /\ ~Contains(p, <<"/">>) /\ ~Contains(p, <<"\\">>)

\* C21: a bare filename (no '/') is accepted as a file path exactly when it
\* is in the allow-list of bare filenames or its extension is a recognized
\* text extension; a one-word name is never accepted by the sanitizer.
C21_BareNameRule ==
    (san.pc = "done" /\ BareName(san.arg)) => (san.out.some <=> is_texty_name(san.arg))

\* a segment of the path string, taken between separators as it stands, has
\* a character outside the filename-safe class
HasUnsafeSegment(p) ==
    \E i \in 1..Len(RawSegments(p)) :
        \E k \in 1..Len(RawSegments(p)[i]) : RawSegments(p)[i][k] \notin SafeChars

\* a segment of the path string, trimmed of the blanks around it, has a
\* character outside the filename-safe class
HasUnsafeTrimmedSegment(p) ==
    \E i \in 1..Len(RawSegments(p)) :
        LET seg == Strip(RawSegments(p)[i])
        IN  \E k \in 1..Len(seg) : seg[k] \notin SafeChars

\* C22: for every path in which some segment has a character outside
\* letters, digits, '.', '_' and '-', a blank inside or around a segment
\* included, sanitize_relpath returns None.
C22_UnsafeSegmentRejected ==
    (san.pc = "done" /\ HasUnsafeSegment(san.arg)) => ~san.out.some

\* C22, amended: the blanks around each segment are trimmed first; for
\* every path in which some trimmed segment still has a character outside
\* the class, sanitize_relpath returns None.
C22_UnsafeTrimmedSegmentRejected ==
    (san.pc = "done" /\ HasUnsafeTrimmedSegment(san.arg)) => ~san.out.some

\* C22 witness: a path with a blank inside one segment and a sound segment
\* beside it was rejected
C22_Witness ==
    /\ san.pc = "done" /\ ~san.out.some
    /\ san.arg = <<"a", "/", "a", " ", "a">>

(***************************************************************************)
(* SpecFind: _find_all_files applied to /b/r, for every filesystem with a  *)
(* few files in directories of a few names, noise directories among them   *)
(***************************************************************************)
MaxDepth == 2

MaxFiles == 2

FindDirNames == {<<".", "g", "i", "t">>, <<"n", "o", "d", "e", "_", "m", "o", "d", "u", "l", "e", "s">>, <<"s", "r", "c">>}

FindFileNames == {<<"a", ".", "p", "y">>}

RECURSIVE FindDirsUpTo(_)
\* the directories under the root, down to a depth
FindDirsUpTo(n) ==
    IF n = 0 THEN { << >> }
    ELSE FindDirsUpTo(n - 1)
            \cup { Append(d, c) : d \in FindDirsUpTo(n - 1), c \in FindDirNames }

FindPaths == { DirBR \o d \o <<f>> : d \in FindDirsUpTo(MaxDepth), f \in FindFileNames }

RECURSIVE SubsetsUpTo(_, _)
\* the subsets of S with at most n elements
SubsetsUpTo(S, n) ==
    IF n = 0 THEN { {} }
    ELSE LET smaller == SubsetsUpTo(S, n - 1)
         IN  smaller \cup { T \cup {x} : T \in smaller, x \in S }

\* the filesystems: up to MaxFiles files, and one file outside the root
FindDisks ==
    { [p \in S \cup {DirB \o << <<"o", ".", "p", "y">> >>} |-> <<"x", "\n">>] :
        S \in SubsetsUpTo(FindPaths, MaxFiles) }

InitFind ==
    /\ san = SanIdle /\ eu = EuIdle /\ hd = HdIdle
    /\ fill = FillIdle /\ build = BuildIdle
    /\ tree = TreeIdle /\ chat = ChatIdle /\ gate = GateIdle /\ cf = CfIdle /\ aud = AudIdle
    /\ disk \in FindDisks
    /\ pure = [pc |-> "call", fn |-> "_find_all_files", out |-> << >>]

\* the call returns
FindAllFiles ==
    /\ pure.pc = "call" /\ pure.fn = "_find_all_files"
    /\ pure' = [pure EXCEPT !.pc = "done", !.out = find_all_files(disk, DirBR)]
    /\ UNCHANGED <<san, eu, hd, disk, fill, build, tree, chat, gate, cf, aud>>

NextFind == FindAllFiles

SpecFind == InitFind /\ [][NextFind]_vars

\* the path has a segment, under /b/r, that names a noise directory
InNoiseDir(p) == \E k \in (Len(DirBR) + 1)..(Len(p) - 1) : p[k] \in NOISE_DIRS

\* C23: _find_all_files(root) returns every regular file under root except
\* those inside a noise directory: no returned path has a segment named
\* .git, __pycache__, .mypy_cache, .venv or node_modules.
C23_NoiseDirsExcluded ==
    (pure.pc = "done" /\ pure.fn = "_find_all_files") =>
        Elems(pure.out) = {p \in DOMAIN disk :
                              /\ Len(p) > Len(DirBR) /\ IsRelativeTo(p, DirBR)
                              /\ ~InNoiseDir(p)}

(***************************************************************************)
(* The report lists of a build                                             *)
(***************************************************************************)
\* no element is in two of the lists
PairwiseDisjoint(lists) ==
    \A i, j \in 1..Len(lists) : i # j => Elems(lists[i]) \cap Elems(lists[j]) = {}

\* C24: in the result of every build the path lists are pairwise disjoint:
\* created and updated of codefill_run's summary, created, updated,
\* unchanged and failed of audit_and_fill's statistics, created and skipped
\* of build_from_text's BuildResult.
C24_ListsDisjoint ==
    /\ (cf.pc = "done" /\ cf.op = "codefill_run" /\ ~cf.raised)
           => cf.created \cap cf.updated = {}
    /\ (build.pc = "done" /\ build.raised = "none")
           => /\ PairwiseDisjoint(<<build.created, build.skipped>>)
              /\ build.audited =>
                    PairwiseDisjoint(<<build.audit.created, build.audit.updated,
                                       build.audit.unchanged, build.audit.failed>>)

(***************************************************************************)
(* SpecTail: the tree parser on dumps whose tree is followed by a blank    *)
(* line, a fence marker or a heading, and then by one more connector line. *)
(***************************************************************************)
\* a connector line of the first level
TailLate == <<ELL, HBAR, HBAR, " ", "l", "a", "t", "e", ".", "p", "y">>

\* the lines that may end a tree: a blank line, a fence marker, a heading
TailBlank == <<>>

TailFence == <<BT, BT, BT>>

TailHeading == <<"#", "#", " ", "N", "o", "t", "e", "s">>

\* the lines after the tree
TreeTails ==
    { << >>, <<TailBlank, TailLate>>, <<TailFence, TailLate>>, <<TailHeading, TailLate>>,
      <<TailBlank, TailHeading>> }

InitTail ==
    /\ san = SanIdle /\ eu = EuIdle /\ hd = HdIdle
    /\ BuildVarsIdle
    /\ chat = ChatIdle /\ gate = GateIdle /\ cf = CfIdle /\ aud = AudIdle
    /\ pure = PureIdle
    /\ tree \in [pc : {"call"}, before : TreeBefore, entries : TreeShapes \ {<< >>},
                 after : TreeTails, out : {<< >>}]

SpecTail == InitTail /\ [][NextTree]_vars

\* the line is blank, a markdown heading or a fence marker
IsTerminator(line) ==
    \/ Strip(line) = <<>>
    \/ Strip(line)[1] = "#"
    \/ (Strip(line)[1] \in FenceChars /\ RunLen(Strip(line), Strip(line)[1]) >= 3)

RECURSIVE CutAtTerminator(_, _, _)
\* the lines up to the first terminator that follows the root line
CutAtTerminator(lines, root_name, in_tree) ==
    IF lines = << >> THEN << >>
    ELSE IF in_tree /\ IsTerminator(Head(lines)) THEN << >>
    ELSE <<Head(lines)>>
            \o CutAtTerminator(Tail(lines), root_name,
                               in_tree \/ Strip(Head(lines)) = root_name \o <<"/">>)

\* C25: after the root line the tree parser stops at the first blank line,
\* markdown heading or fence marker: what it returns is what it returns for
\* the dump cut at that line, so no later line gives a tree entry.
C25_StopsAtTerminator ==
    tree.pc = "done" =>
        LET dump == TreeDump(tree.before, tree.entries, tree.after)
        IN  tree.out = discover_paths_from_tree(CutAtTerminator(dump, TreeRoot, FALSE),
                                                TreeRoot)


(***************************************************************************)
(* What a build reports as created                                         *)
(***************************************************************************)
\* the target did not exist before the build and exists after it
NewlyWritten(pre, post, target) == ~Exists(pre, target) /\ Exists(post, target)

\* C26: a path is reported as created exactly when its target file did not
\* exist before the build and was written by it; a file that existed before
\* (an empty one, or one overwritten in overwrite mode) is never reported as
\* created: for audit_and_fill, for codefill_run and for build_from_text.
C26_CreatedMeansNew ==
    /\ aud.pc = "ready" /\ aud.last.ran =>
           (PathP \in Elems(aud.last.created)
                <=> NewlyWritten(aud.last.pre, disk, FileP))
    /\ (cf.pc = "done" /\ cf.op = "codefill_run" /\ ~cf.raised) =>
           \A rel \in cf.from_dump :
               rel \in cf.created <=> NewlyWritten(cf.pre, disk, FileAt(cf.root_dir, rel))
    /\ BuildReturned =>
           \A rel \in Elems(build.declared) :
               TargetOf(rel) \in Elems(build.created)
                   <=> (~Exists(build.pre, TargetOf(rel))
                        /\ TargetOf(rel) \in build.wrote)

(***************************************************************************)
(* SpecMap: one call of _map_content_to_files on a dump of sections, each  *)
(* a heading and at most one fenced block.                                 *)
(***************************************************************************)
\* the files of the tree
MapFiles == <<PathP, PathReadme>>

\* the headings: one that names d/m.py, one that continues it, one that names
\* README.md, one that names no file
MapHeads ==
    { <<"#", "#", " ", "d", "/", "m", ".", "p", "y">>,
      <<"#", "#", " ", "d", "/", "m", ".", "p", "y", " ", "(", "c", "o", "n", "t", "i", "n", "u", "e", "d", ")">>,
      <<"#", "#", " ", "R", "E", "A", "D", "M", "E", ".", "m", "d">>,
      <<"#", "#", " ", "N", "o", "t", "e", "s">> }

\* the fence lines that open a block; the same run without the info string
\* closes it
MapOpens ==
    { [ch |-> BT, n |-> 3, info |-> <<>>], [ch |-> BT, n |-> 3, info |-> <<"p", "y">>],
      [ch |-> "~", n |-> 3, info |-> <<>>] }

\* the bodies: none, a line, another line, a line and a nested block fenced
\* with tildes, a line and a fence line with an info string
MapBodies ==
    { << >>, <<TextX>>, <<TextY>>,
      <<TextX, <<"~", "~", "~">>, TextY, <<"~", "~", "~">> >>,
      <<TextX, <<BT, BT, BT, "p", "y">>, TextY>> }

MapBlocks == {NoBlock} \cup [present : {TRUE}, open : MapOpens, body : MapBodies]

MapSections == [head : MapHeads, block : MapBlocks]

\* the lines of a dump of sections
RECURSIVE MapDump(_)
MapDump(secs) ==
    IF secs = << >> THEN << >>
    ELSE <<Head(secs).head>> \o BlockLines(Head(secs).block) \o MapDump(Tail(secs))

InitMap ==
    /\ san = SanIdle /\ eu = EuIdle /\ hd = HdIdle
    /\ BuildVarsIdle
    /\ tree = TreeIdle /\ chat = ChatIdle /\ gate = GateIdle /\ cf = CfIdle /\ aud = AudIdle
    /\ pure \in [pc : {"call"}, fn : {"_map_content_to_files"},
                 secs : SeqsUpTo(MapSections, MaxSections), out : {NoFiles}]

\* the call, from its first line to its return
MapContentToFiles ==
    /\ pure.pc = "call" /\ pure.fn = "_map_content_to_files"
    /\ pure' = [pure EXCEPT !.pc = "done",
                            !.out = map_content_to_files(MapDump(pure.secs), RootName,
                                                         MapFiles)]
    /\ UNCHANGED <<san, eu, hd, disk, fill, build, tree, chat, gate, cf, aud>>

NextMap == MapContentToFiles

SpecMap == InitMap /\ [][NextMap]_vars

\* the call returned
Mapped == pure.pc = "done" /\ pure.fn = "_map_content_to_files"

\* the heading of the section names d/m.py
MapNamesP(sec) == SearchWith(HeadingPathEnd, sec.head) = Some(PathP)

\* the block has no fence line in its body
MapPlain(b) == \A k \in 1..Len(b.body) : ~FenceLineMatch(b.body[k])

\* the items of the answers, in the order of their arrival
RECURSIVE ItemsOf(_)
ItemsOf(answers) ==
    IF answers = << >> THEN << >> ELSE Head(answers).items \o ItemsOf(Tail(answers))

\* C27: once a path has a non-empty content mapping, a later empty result for
\* the same path does not replace it.  For the parser: in a dump of blocks
\* without nested fences, a path that has a non-empty block under a heading
\* naming it is mapped to non-empty content.  For the blob pass: a listed
\* path for which some answer gave non-empty content has non-empty content
\* in the result.
C27_NonEmptyKept ==
    /\ Mapped =>
           ((/\ \A i \in 1..Len(pure.secs) : MapPlain(pure.secs[i].block)
             /\ \E i \in 1..Len(pure.secs) :
                    /\ MapNamesP(pure.secs[i])
                    /\ pure.secs[i].block.present
                    /\ pure.secs[i].block.body # << >>)
                => (PathP \in DOMAIN pure.out /\ pure.out[PathP] # <<>>))
    /\ (cf.pc = "done" /\ ~GatewayFailed(cf.listObj, cf.answers)) =>
           LET files == llm_extract_file_list(cf.listObj).files
               blobs == llm_extract_file_blobs(files, cf.answers).blobs
               items == ItemsOf(cf.answers)
           IN  \A k \in 1..Len(files) :
                   (\E i \in 1..Len(items) :
                        ListedPath(items[i].path) = files[k] /\ items[i].content # <<>>)
                       => blobs[k].content # <<>>

\* C28: a fenced block is closed only by a fence line made of the run that
\* opened it; a line of the other fence character, or a fence line with an
\* info string, is part of the body.  In a dump whose only block stands under
\* a heading naming d/m.py, the path is mapped to the whole body of the block.
C28_ClosedBySameRun ==
    Mapped =>
        \A i \in 1..Len(pure.secs) :
            (/\ MapNamesP(pure.secs[i])
             /\ pure.secs[i].block.present
             /\ \A j \in 1..Len(pure.secs) : j # i => ~pure.secs[j].block.present
             /\ \A k \in 1..Len(pure.secs[i].block.body) :
                    pure.secs[i].block.body[k]
                        # Rep(pure.secs[i].block.open.ch, pure.secs[i].block.open.n))
                => (PathP \in DOMAIN pure.out
                    /\ pure.out[PathP] = BodyText(pure.secs[i].block))

\* the marker file of the runs
MarkerFile == Append(resolve_root_dir(DirB, RootName), MARKER_NAME)

\* C29: the hash marker is written only after codefill_run has returned: a
\* run that raises leaves the marker as it was (its value, or its absence),
\* and the run that follows a run that raised, with the same dump, is not
\* skipped.
C29_RaisedKeepsMarker ==
    [][/\ fill'.last.raised
           => ContentAt(disk', MarkerFile) = ContentAt(disk, MarkerFile)
       /\ (fill.last.ran /\ fill.last.raised /\ fill'.last.dump = fill.last.dump)
           => ~fill'.last.skipped]_vars

\* C29 witness: a run raised with no marker written before it, the next run
\* found the same dump, called the Gateway again and built
C29_Witness ==
    /\ fill.pc = "ready" /\ fill.prev.ran /\ fill.prev.raised
    /\ fill.last.ran /\ fill.last.dump = fill.prev.dump
    /\ ~fill.last.skipped /\ ~fill.last.raised
    /\ fill.last.calls > 0 /\ fill.last.writes # {}

\* a name without its leading "./" or its leading "/"
WithoutLead(name) ==
    IF StartsWith(name, <<".", "/">>) THEN SubSeq(name, 3, Len(name))
    ELSE IF StartsWith(name, <<"/">>) THEN SubSeq(name, 2, Len(name))
    ELSE name

\* C30: the normalisation of the names the list and blob passes return
\* removes only a leading "./" or "/": every file codefill_run reports as
\* found is a listed name without that lead (so ".env" is written as ".env"),
\* and normalising a normalised name gives it unchanged.
C30_NormKeepsName ==
    (cf.pc = "done" /\ cf.op = "codefill_run" /\ ~cf.raised) =>
        /\ \A rel \in cf.from_dump :
               \E k \in 1..Len(cf.listObj.files) : rel = WithoutLead(cf.listObj.files[k])
        /\ \A k \in 1..Len(cf.listObj.files) :
               ListedPath(ListedPath(cf.listObj.files[k])) = ListedPath(cf.listObj.files[k])
====
